---- MODULE Spec2Model ----
(***************************************************************************)
(* A model of dynastorev2: the Store facade over a DynamoDB table          *)
(* (dynastore.go), its functional options (options.go), and the            *)
(* part of the DynamoDB service the store relies on (conditional           *)
(* UpdateItem / DeleteItem, GetItem).                                      *)
(*                                                                         *)
(* Every Store method is a pure operator from the table before the call    *)
(* and the call's arguments to an outcome (table after, OperationResult,   *)
(* value, error chain, hook/backend events).  The actions of the           *)
(* specification apply these operators to the table.                       *)
(***************************************************************************)
EXTENDS Integers, Sequences, FiniteSets, TLC

VARIABLES
    table,   \* the DynamoDB table: a function from the keys that exist to their items
    last,    \* what the most recent Store call was and what it returned
    store,   \* the Store instance the calls are made on
    calls    \* the calls of the goroutines that share the store, each with its locals

vars == <<table, last, store, calls>>

----------------------------------------------------------------------------
(* Bounds of the model                                                     *)

\* Writes are issued only while the stored version is below this cap.
MaxVersion == 2

\* time.Duration and time.Time are counted in ticks; Unix() counts seconds.
TicksPerSecond == 2

PKeys == {"P"}
SKeys == {"cust/1", "cust/2"}
Keys == PKeys \X SKeys

\* payloads ([]byte values)
Values == {"data", "data2"}

\* readings of time.Now(), in ticks (2.5 s after the epoch)
Times == {5}

\* time-to-live arguments, in ticks
TTLs == {-1, 2}

\* expected-version arguments
ExpectedVersions == -1 .. (MaxVersion + 1)

----------------------------------------------------------------------------
(* Field names                                                             *)

DefaultPartitionKeyAttribute == "id"
DefaultSortKeyAttribute == "name"
DefaultExpiresAttribute == "expires"
DefaultVersionAttribute == "version"
DefaultPayloadAttribute == "payload"

\* Store.fields as set by New
fields ==
    [ partitionKeyName |-> DefaultPartitionKeyAttribute,
      sortKeyName      |-> DefaultSortKeyAttribute,
      expiresName      |-> DefaultExpiresAttribute,
      versionName      |-> DefaultVersionAttribute,
      payloadName      |-> DefaultPayloadAttribute ]

----------------------------------------------------------------------------
(* Errors: an error is the chain of its wrappers, outermost first          *)

NoErr == << >>

ErrReservedField == "dynastorev2: extra fields contained name which conflicts with table keys attributes"
ErrDeleteFailedKeyNotExists == "dynastorev2: delete failed as the partition and sort keys didn't exist in the table"

\* errors of the collaborators
ConditionalCheckFailedException == "ConditionalCheckFailedException"
BackendFailure == "backend: request failed"
UnsetParameterError == "expression: unset parameter: Builder"
UnmarshalTypeError == "attributevalue: unmarshal type error"

\* errors.NewError(msg)
NewError(msg) == << msg >>

\* errors.Wrap(err, msg)
Wrap(err, msg) == << msg >> \o err

\* errors.Is / errors.As: some error of the chain is the target
Is(err, target) == \E i \in 1 .. Len(err) : err[i] = target

----------------------------------------------------------------------------
(* Attribute values (types.AttributeValue) and attributevalue.Marshal      *)

AttributeValueMemberS(s) == [t |-> "S", v |-> s]
AttributeValueMemberN(n) == [t |-> "N", v |-> n]
AttributeValueMemberB(b) == [t |-> "B", v |-> b]

\* attributevalue.Marshal of a []byte value
MarshalValue(value) == AttributeValueMemberB(value)

\* attributevalue.Marshal of a string (keys, extra fields)
MarshalString(s) == AttributeValueMemberS(s)

\* attributevalue.Marshal of an integer
MarshalInt(n) == AttributeValueMemberN(n)

\* the zero value of V = []byte (nil)
ZeroValue == ""

\* attributevalue.Unmarshal(attr, &val) for V = []byte
UnmarshalValue(attr) ==
    IF attr.t = "B" THEN [err |-> NoErr, val |-> attr.v]
    ELSE [err |-> NewError(UnmarshalTypeError), val |-> ZeroValue]

\* attributevalue.Unmarshal(attr, &version) for an int64
UnmarshalInt(attr) ==
    IF attr.t = "N" THEN [err |-> NoErr, val |-> attr.v]
    ELSE [err |-> NewError(UnmarshalTypeError), val |-> 0]

\* an item with no attributes: what GetItem returns for a key that is not there
EmptyItem == [a \in {} |-> AttributeValueMemberN(0)]

\* the item stored at key, or the empty item
ItemAt(tbl, key) == IF key \in DOMAIN tbl THEN tbl[key] ELSE EmptyItem

\* the version stored in an item (0 when it has none)
StoredVersion(item) ==
    IF DefaultVersionAttribute \in DOMAIN item THEN item[DefaultVersionAttribute].v ELSE 0

----------------------------------------------------------------------------
(* Contexts and operation details (context.go), hooks (hooks.go)           *)

\* context.Background(): no operation details, no annotation by a hook
Background == [Name |-> "", PartitionKey |-> "", SortKey |-> "", builtBy |-> ""]

\* fmt.Sprint of a string key
Sprint(k) == k

\* operation details with the two keys in each other's place
setOperationDetailsSwapped(ctx, name, partitionKey, sortKey) ==
    [ctx EXCEPT !.Name = name, !.PartitionKey = Sprint(sortKey), !.SortKey = Sprint(partitionKey)]

setOperationDetails(ctx, name, partitionKey, sortKey) ==
    [ctx EXCEPT !.Name = name, !.PartitionKey = Sprint(partitionKey), !.SortKey = Sprint(sortKey)]

OperationDetailsFromContext(ctx) ==
    [Name |-> ctx.Name, PartitionKey |-> ctx.PartitionKey, SortKey |-> ctx.SortKey]

\* StoreHooks.RequestBuilt of the store: a hook that returns a context of its own
RequestBuilt(ctx, pk, sk) == [ctx EXCEPT !.builtBy = "RequestBuilt"]

\* StoreHooks.ResponseReceived of the store (its result is dropped by every caller)
ResponseReceived(ctx, pk, sk) == ctx

\* one entry of a call's trace: a hook invocation or a backend request, with the
\* context it was given
Event(kind, ctx) == [kind |-> kind, ctx |-> ctx]

----------------------------------------------------------------------------
(* Option sets (options.go)                                                *)

EmptyFields == [k \in {} |-> ""]

\* Store.defaultWriteOptions
defaultWriteOptions ==
    [extraFields |-> EmptyFields, ttl |-> 0, version |-> 0, createConstraintDisabled |-> FALSE]

\* Store.defaultDeleteOptions
defaultDeleteOptions == [existsCheck |-> TRUE]

\* Store.defaultReadOptions
defaultReadOptions == [consistentRead |-> FALSE, lastEvaluatedKey |-> << >>, limit |-> 0]

\* an option is the assignment its function makes: the field and its value
writeWithTTL(ttl) == [ttl |-> ttl]
writeWithVersion(version) == [version |-> version]
writeWithExtraFields(extraFields) == [extraFields |-> extraFields]
writeWithCreateConstraintDisabled(createConstraintDisabled) ==
    [createConstraintDisabled |-> createConstraintDisabled]
readWithConsistentRead(consistentRead) == [consistentRead |-> consistentRead]
readWithLastEvaluatedKey(lastEvaluatedKey) == [lastEvaluatedKey |-> lastEvaluatedKey]
readWithLimit(limit) == [limit |-> limit]
deleteWithCheck(enabled) == [existsCheck |-> enabled]

\* writeOptionFunc.apply / readOptionFunc.apply / deleteOptionFunc.apply
apply(opt, opts) ==
    [f \in DOMAIN opts |-> IF f \in DOMAIN opt THEN opt[f] ELSE opts[f]]

RECURSIVE applyOptionsReversed(_, _)
\* a loop that applies the options from the last to the first
applyOptionsReversed(v, opts) ==
    IF opts = << >> THEN v
    ELSE applyOptionsReversed(apply(opts[Len(opts)], v), SubSeq(opts, 1, Len(opts) - 1))

RECURSIVE applyOptions(_, _)
\* the loop of applyWriteOptions / applyReadOptions / applyDeleteOptions
applyOptions(v, opts) ==
    IF opts = << >> THEN v ELSE applyOptions(apply(Head(opts), v), Tail(opts))

applyWriteOptions(v, opts) == applyOptions(v, opts)
applyReadOptions(v, opts) == applyOptions(v, opts)
applyDeleteOptions(v, opts) == applyOptions(v, opts)

----------------------------------------------------------------------------
(* Expressions (the dexp builder) as data                                  *)

\* a condition is the set of the atoms it conjoins
AttributeExists(name) == { <<"attribute_exists", name>> }
AttributeNotExists(name) == { <<"attribute_not_exists", name>> }
Equal(name, val) == { <<"=", name, val>> }
And(c1, c2) == c1 \cup c2

\* an update is its ADD clauses and its SET clauses, by attribute name
Add(name, n) == [add |-> (name :> n), set |-> [k \in {} |-> AttributeValueMemberN(0)]]
Set(update, name, val) == [update EXCEPT !.set = (name :> val) @@ @]

\* a key condition is the equality on the hash key and what is asked of the
\* range key
KeyEqual(name, val) == [name |-> name, val |-> val]
KeyBeginsWith(name, prefix) == << [name |-> name, prefix |-> prefix] >>
KeyAnd(hash, range) == [hash |-> hash, range |-> range]

NewBuilder ==
    [ hasUpdate |-> FALSE, update |-> Add("", 0), hasCondition |-> FALSE, condition |-> {},
      hasKeyCondition |-> FALSE, keyCondition |-> KeyAnd(KeyEqual("", MarshalString("")), << >>) ]
WithUpdate(b, update) == [b EXCEPT !.hasUpdate = TRUE, !.update = update]
WithCondition(b, cond) == [b EXCEPT !.hasCondition = TRUE, !.condition = cond]
WithKeyCondition(b, keyCond) == [b EXCEPT !.hasKeyCondition = TRUE, !.keyCondition = keyCond]

\* Builder.Build: a builder to which no expression was added cannot be built
Build(b) ==
    IF ~b.hasUpdate /\ ~b.hasCondition /\ ~b.hasKeyCondition
    THEN [err |-> NewError(UnsetParameterError), expr |-> b]
    ELSE [err |-> NoErr, expr |-> b]

----------------------------------------------------------------------------
(* Strings whose bytes matter (sort keys that are matched by prefix,        *)
(* cursors): a string is the sequence of its characters, "" is << >>        *)

\* the byte of each character these strings are written in
Ascii ==
    ("\"" :> 34) @@ ("," :> 44) @@ ("/" :> 47) @@ (":" :> 58) @@ ("<" :> 60)
        @@ ("\\" :> 92) @@ ("{" :> 123) @@ ("}" :> 125)
        @@ ("0" :> 48) @@ ("1" :> 49) @@ ("2" :> 50) @@ ("3" :> 51) @@ ("4" :> 52)
        @@ ("5" :> 53) @@ ("6" :> 54) @@ ("7" :> 55) @@ ("8" :> 56) @@ ("9" :> 57)
        @@ ("a" :> 97) @@ ("b" :> 98) @@ ("c" :> 99) @@ ("d" :> 100) @@ ("e" :> 101)
        @@ ("f" :> 102) @@ ("i" :> 105) @@ ("k" :> 107) @@ ("l" :> 108) @@ ("m" :> 109)
        @@ ("n" :> 110) @@ ("p" :> 112) @@ ("q" :> 113) @@ ("r" :> 114) @@ ("s" :> 115)
        @@ ("t" :> 116) @@ ("u" :> 117)

\* a byte that is none of these characters
ReplacementChar == "U+FFFD"

\* the character of a byte
Chr(b) ==
    IF \E c \in DOMAIN Ascii : Ascii[c] = b
    THEN CHOOSE c \in DOMAIN Ascii : Ascii[c] = b
    ELSE ReplacementChar

\* []byte(s)
Bytes(s) == [i \in 1 .. Len(s) |-> Ascii[s[i]]]

\* string(data)
String(data) == [i \in 1 .. Len(data) |-> Chr(data[i])]

\* strings.HasPrefix(s, prefix)
HasPrefix(s, prefix) ==
    /\ Len(prefix) <= Len(s)
    /\ SubSeq(s, 1, Len(prefix)) = prefix

RECURSIVE Less(_, _)
\* a < b for strings: byte by byte, a proper prefix first
Less(a, b) ==
    IF b = << >> THEN FALSE
    ELSE IF a = << >> THEN TRUE
    ELSE IF Ascii[Head(a)] # Ascii[Head(b)] THEN Ascii[Head(a)] < Ascii[Head(b)]
    ELSE Less(Tail(a), Tail(b))

RECURSIVE Itoa(_)
\* strconv.Itoa of a number that is not negative
Itoa(n) ==
    IF n < 10 THEN << Chr(48 + n) >> ELSE Append(Itoa(n \div 10), Chr(48 + (n % 10)))

\* the attribute names as strings of characters
Spelling ==
    ("id" :> << "i", "d" >>) @@ ("name" :> << "n", "a", "m", "e" >>)
        @@ ("created" :> << "c", "r", "e", "a", "t", "e", "d" >>)
        @@ ("pk1" :> << "p", "k", "1" >>) @@ ("sk1" :> << "s", "k", "1" >>)

\* a name that is none of the attribute names (all of them stand for one)
OtherName == "?"

\* the attribute name a string of characters spells
NameOf(s) ==
    IF \E n \in DOMAIN Spelling : Spelling[n] = s
    THEN CHOOSE n \in DOMAIN Spelling : Spelling[n] = s
    ELSE OtherName

----------------------------------------------------------------------------
(* encoding/base64: RawURLEncoding                                          *)

\* the URL-safe alphabet, the character of sextet i at position i + 1
encodeURL ==
    << "A", "B", "C", "D", "E", "F", "G", "H", "I", "J", "K", "L", "M", "N", "O", "P",
       "Q", "R", "S", "T", "U", "V", "W", "X", "Y", "Z", "a", "b", "c", "d", "e", "f",
       "g", "h", "i", "j", "k", "l", "m", "n", "o", "p", "q", "r", "s", "t", "u", "v",
       "w", "x", "y", "z", "0", "1", "2", "3", "4", "5", "6", "7", "8", "9", "-", "_" >>

CorruptInputError == "illegal base64 data"

\* a three-byte group encoded as the first n characters of its four
EncodeGroup(b1, b2, b3, n) ==
    SubSeq(<< encodeURL[(b1 \div 4) + 1],
              encodeURL[((b1 % 4) * 16 + b2 \div 16) + 1],
              encodeURL[((b2 % 16) * 4 + b3 \div 64) + 1],
              encodeURL[(b3 % 64) + 1] >>, 1, n)

RECURSIVE EncodeToString(_)
\* base64.RawURLEncoding.EncodeToString: no padding, so a last group of one
\* byte gives two characters and one of two bytes gives three
EncodeToString(data) ==
    IF data = << >> THEN << >>
    ELSE IF Len(data) = 1 THEN EncodeGroup(data[1], 0, 0, 2)
    ELSE IF Len(data) = 2 THEN EncodeGroup(data[1], data[2], 0, 3)
    ELSE EncodeGroup(data[1], data[2], data[3], 4)
             \o EncodeToString(SubSeq(data, 4, Len(data)))

\* the sextet a character of the alphabet stands for
Sextet(c) == (CHOOSE i \in 1 .. 64 : encodeURL[i] = c) - 1

\* the first n bytes of the three bytes that four sextets hold
DecodeGroup(s1, s2, s3, s4, n) ==
    SubSeq(<< s1 * 4 + s2 \div 16,
              (s2 % 16) * 16 + s3 \div 4,
              (s3 % 4) * 64 + s4 >>, 1, n)

RECURSIVE DecodeGroups(_)
DecodeGroups(s) ==
    IF s = << >> THEN << >>
    ELSE IF Len(s) = 2 THEN DecodeGroup(Sextet(s[1]), Sextet(s[2]), 0, 0, 1)
    ELSE IF Len(s) = 3 THEN DecodeGroup(Sextet(s[1]), Sextet(s[2]), Sextet(s[3]), 0, 2)
    ELSE DecodeGroup(Sextet(s[1]), Sextet(s[2]), Sextet(s[3]), Sextet(s[4]), 3)
             \o DecodeGroups(SubSeq(s, 5, Len(s)))

\* the decoding of text without line breaks: a character outside the
\* alphabet (the padding character is one) or a last group of a single
\* character is corrupt
decodeText(s) ==
    IF \/ \E i \in 1 .. Len(s) : \A j \in 1 .. 64 : encodeURL[j] # s[i]
       \/ Len(s) % 4 = 1
    THEN [err |-> NewError(CorruptInputError), data |-> << >>]
    ELSE [err |-> NoErr, data |-> DecodeGroups(s)]

\* base64.RawURLEncoding.DecodeString: carriage returns and line feeds in
\* the text are skipped
DecodeString(s) == decodeText(SelectSeq(s, LAMBDA c : c \notin { "\n", "\r" }))

----------------------------------------------------------------------------
(* encoding/json for a map[string]string, and attributevalue.MarshalMap /   *)
(* UnmarshalMap for it                                                      *)

SyntaxError == "json: syntax error"
JSONUnmarshalTypeError == "json: cannot unmarshal into Go value of type string"

\* an empty map[string]string
EmptyMap == [a \in {} |-> << >>]

\* a string literal written without escaping
EscapedNot(s) == s

RECURSIVE Escaped(_)
\* the inside of a JSON string literal: quote and backslash escaped, and "<"
\* written < as json.Marshal does
Escaped(s) ==
    IF s = << >> THEN << >>
    ELSE (CASE Head(s) = "\"" -> << "\\", "\"" >>
            [] Head(s) = "\\" -> << "\\", "\\" >>
            [] Head(s) = "<" -> << "\\", "u", "0", "0", "3", "c" >>
            [] OTHER -> << Head(s) >>) \o Escaped(Tail(s))

Quote(s) == << "\"" >> \o Escaped(s) \o << "\"" >>

RECURSIVE SortStrings(_)
\* the strings of a set in ascending order
SortStrings(S) ==
    IF S = {} THEN << >>
    ELSE LET least == CHOOSE x \in S : \A y \in S \ {x} : Less(x, y)
         IN  << least >> \o SortStrings(S \ {least})

RECURSIVE Members(_, _)
\* "k":"v" for each key of the sequence, separated by commas
Members(m, ks) ==
    IF ks = << >> THEN << >>
    ELSE Quote(Head(ks)) \o << ":" >> \o Quote(m[NameOf(Head(ks))])
             \o (IF Tail(ks) = << >> THEN << >> ELSE << "," >>)
             \o Members(m, Tail(ks))

\* json.Marshal(&m): an object with its keys sorted
jsonMarshal(m) ==
    Bytes(<< "{" >> \o Members(m, SortStrings({ Spelling[a] : a \in DOMAIN m })) \o << "}" >>)

\* the byte at position i, -1 after the end
At(data, i) == IF i <= Len(data) THEN data[i] ELSE -1

RECURSIVE skip(_, _)
\* the first position from i on that holds no white space
skip(data, i) ==
    IF At(data, i) \in {9, 10, 13, 32} THEN skip(data, i + 1) ELSE i

\* the value of a hexadecimal digit, -1 for another byte
HexVal(b) ==
    IF b >= 48 /\ b <= 57 THEN b - 48
    ELSE IF b >= 97 /\ b <= 102 THEN b - 87
    ELSE IF b >= 65 /\ b <= 70 THEN b - 55
    ELSE -1

RECURSIVE scanString(_, _, _)
\* the string literal whose opening quote is before position i
scanString(data, i, acc) ==
    LET b == At(data, i)
        e == At(data, i + 1)
        hex == [j \in 1 .. 4 |-> HexVal(At(data, i + 1 + j))]
    IN  IF b < 32 THEN [ok |-> FALSE, val |-> acc, next |-> i]
        ELSE IF b = 34 THEN [ok |-> TRUE, val |-> acc, next |-> i + 1]
        ELSE IF b # 92 THEN scanString(data, i + 1, Append(acc, Chr(b)))
        ELSE IF e \in {34, 47, 92} THEN scanString(data, i + 2, Append(acc, Chr(e)))
        ELSE IF e = 117 /\ \A j \in 1 .. 4 : hex[j] >= 0
        THEN scanString(data, i + 6,
                        Append(acc, Chr(((hex[1] * 16 + hex[2]) * 16 + hex[3]) * 16 + hex[4])))
        ELSE IF e \in {98, 102, 110, 114, 116}
        THEN scanString(data, i + 2, Append(acc, ReplacementChar))
        ELSE [ok |-> FALSE, val |-> acc, next |-> i]

\* the bytes of text stand at position i
IsLiteral(data, i, text) == [k \in 1 .. Len(text) |-> At(data, i + k - 1)] = text

IsDigit(b) == b >= 48 /\ b <= 57

RECURSIVE digitsEnd(_, _)
\* the first position from i on that holds no digit
digitsEnd(data, i) == IF IsDigit(At(data, i)) THEN digitsEnd(data, i + 1) ELSE i

\* the position after a number, part by part: exponent, fraction, integer,
\* sign; 0 when what stands there is no number
numberExp(data, i) ==
    IF At(data, i) \notin {69, 101} THEN i
    ELSE IF At(data, i + 1) \in {43, 45}
    THEN (IF IsDigit(At(data, i + 2)) THEN digitsEnd(data, i + 2) ELSE 0)
    ELSE (IF IsDigit(At(data, i + 1)) THEN digitsEnd(data, i + 1) ELSE 0)

numberFrac(data, i) ==
    IF At(data, i) # 46 THEN numberExp(data, i)
    ELSE IF IsDigit(At(data, i + 1)) THEN numberExp(data, digitsEnd(data, i + 1))
    ELSE 0

numberInt(data, i) ==
    IF At(data, i) = 48 THEN numberFrac(data, i + 1)
    ELSE IF IsDigit(At(data, i)) THEN numberFrac(data, digitsEnd(data, i))
    ELSE 0

numberEnd(data, i) == numberInt(data, IF At(data, i) = 45 THEN i + 1 ELSE i)

\* the position after the string literal that opens at position i, 0 when
\* it is not closed or holds a control byte or a wrong escape
stringEnd(s) == IF s.ok THEN s.next ELSE 0

RECURSIVE valueEnd(_, _)
RECURSIVE elementsEnd(_, _)
RECURSIVE membersEnd(_, _)

\* the scanner of json.Unmarshal (checkValid): the position after the JSON
\* value that begins at position i, 0 when there is none

\* after an element of an array that ends before position e
elementsNext(data, after) ==
    IF At(data, after) = 44 THEN elementsEnd(data, skip(data, after + 1))
    ELSE IF At(data, after) = 93 THEN after + 1
    ELSE 0

elementsAfter(data, e) == IF e = 0 THEN 0 ELSE elementsNext(data, skip(data, e))

\* the elements of an array from the value at position i to the bracket
elementsEnd(data, i) == elementsAfter(data, valueEnd(data, i))

\* after a member of an object that ends before position e
membersNext(data, after) ==
    IF At(data, after) = 44 THEN membersEnd(data, skip(data, after + 1))
    ELSE IF At(data, after) = 125 THEN after + 1
    ELSE 0

membersAfter(data, e) == IF e = 0 THEN 0 ELSE membersNext(data, skip(data, e))

\* after the name of a member: a colon and a value
memberColon(data, colon) ==
    IF colon = 0 \/ At(data, colon) # 58 THEN 0
    ELSE membersAfter(data, valueEnd(data, skip(data, colon + 1)))

memberName(data, name) == memberColon(data, IF name = 0 THEN 0 ELSE skip(data, name))

\* the members of an object from the name at position i to the brace
membersEnd(data, i) ==
    IF At(data, i) # 34 THEN 0
    ELSE memberName(data, stringEnd(scanString(data, i + 1, << >>)))

\* what follows the opening brace or bracket: the closing one, or members
\* or elements
objectEnd(data, first) ==
    IF At(data, first) = 125 THEN first + 1 ELSE membersEnd(data, first)

arrayEnd(data, first) ==
    IF At(data, first) = 93 THEN first + 1 ELSE elementsEnd(data, first)

valueEnd(data, i) ==
    CASE At(data, i) = 34 -> stringEnd(scanString(data, i + 1, << >>))
      [] At(data, i) = 123 -> objectEnd(data, skip(data, i + 1))
      [] At(data, i) = 91 -> arrayEnd(data, skip(data, i + 1))
      [] At(data, i) = 116 ->
             IF IsLiteral(data, i, << 116, 114, 117, 101 >>) THEN i + 4 ELSE 0
      [] At(data, i) = 102 ->
             IF IsLiteral(data, i, << 102, 97, 108, 115, 101 >>) THEN i + 5 ELSE 0
      [] At(data, i) = 110 ->
             IF IsLiteral(data, i, << 110, 117, 108, 108 >>) THEN i + 4 ELSE 0
      [] At(data, i) = 45 \/ IsDigit(At(data, i)) -> numberEnd(data, i)
      [] OTHER -> 0

\* the input is one JSON value with nothing but white space around it
endsInput(data, e) == e # 0 /\ skip(data, e) > Len(data)

checkValid(data) == endsInput(data, valueEnd(data, skip(data, 1)))

RECURSIVE scanMembers(_, _, _, _)

\* the decoding of valid input.  A member whose value is a string gives its
\* text; null gives the empty string; a value of another type gives the
\* empty string too and an UnmarshalTypeError, of which the first is kept
\* while the decoding goes on

\* what stands after the value v of the member named k: a comma and the next
\* member, or the closing brace
memberEnd(data, acc, err, k, v) ==
    IF At(data, skip(data, v.next)) = 44
    THEN scanMembers(data, skip(data, skip(data, v.next) + 1),
                     Append(acc, << k.val, v.val >>), IF err # NoErr THEN err ELSE v.err)
    ELSE [ err |-> IF err # NoErr THEN err ELSE v.err,
           pairs |-> Append(acc, << k.val, v.val >>) ]

stringValue(s) == [val |-> s.val, next |-> s.next, err |-> NoErr]

\* the value of a member, which begins at position start
memberValue(data, acc, err, k, start) ==
    IF At(data, start) = 34
    THEN memberEnd(data, acc, err, k, stringValue(scanString(data, start + 1, << >>)))
    ELSE IF At(data, start) = 110
    THEN memberEnd(data, acc, err, k, [val |-> << >>, next |-> start + 4, err |-> NoErr])
    ELSE memberEnd(data, acc, err, k,
                   [ val |-> << >>, next |-> valueEnd(data, start),
                     err |-> NewError(JSONUnmarshalTypeError) ])

\* the value of the member named k: after the colon
memberOf(data, acc, err, k) ==
    memberValue(data, acc, err, k, skip(data, skip(data, k.next) + 1))

\* the members of an object from the name at position i to the closing brace
scanMembers(data, i, acc, err) ==
    memberOf(data, acc, err, scanString(data, i + 1, << >>))

\* the map of a sequence of members: the last member of a name is the one kept
MapOf(pairs) ==
    [a \in { NameOf(pairs[i][1]) : i \in 1 .. Len(pairs) } |->
        LET i == CHOOSE j \in 1 .. Len(pairs) :
                     /\ NameOf(pairs[j][1]) = a
                     /\ \A l \in (j + 1) .. Len(pairs) : NameOf(pairs[l][1]) # a
        IN  pairs[i][2]]

\* the map of an object as decoded, and the first error saved
objectMap(obj) == [err |-> obj.err, m |-> MapOf(obj.pairs)]

\* the decoding of valid input whose value begins at position i: null leaves
\* the map as it is, an object fills it, no other value fits a map
decodeValue(data, i) ==
    IF At(data, i) = 110 THEN [err |-> NoErr, m |-> EmptyMap]
    ELSE IF At(data, i) # 123 THEN [err |-> NewError(JSONUnmarshalTypeError), m |-> EmptyMap]
    ELSE IF At(data, skip(data, i + 1)) = 125 THEN [err |-> NoErr, m |-> EmptyMap]
    ELSE objectMap(scanMembers(data, skip(data, i + 1), << >>, NoErr))

\* json.Unmarshal(data, &m) for an empty map[string]string m: input that is
\* not one JSON value is a syntax error before anything is decoded
jsonUnmarshal(data) ==
    IF ~checkValid(data) THEN [err |-> NewError(SyntaxError), m |-> EmptyMap]
    ELSE decodeValue(data, skip(data, 1))

\* attributevalue.UnmarshalMap(item, &m) for a map[string]string: a string is
\* taken as it is, a number as its digits, and no other type fits a string
UnmarshalMap(item) ==
    IF \E a \in DOMAIN item : item[a].t \notin {"S", "N"}
    THEN [err |-> NewError(UnmarshalTypeError), m |-> EmptyMap]
    ELSE [err |-> NoErr,
          m |-> [a \in DOMAIN item |-> IF item[a].t = "S" THEN item[a].v ELSE Itoa(item[a].v)]]

\* attributevalue.MarshalMap(&m) for a map[string]string
MarshalMap(m) == [a \in DOMAIN m |-> MarshalString(m[a])]

----------------------------------------------------------------------------
(* The DynamoDB service, as the store uses it                              *)

\* the key of the table (hash "id", range "name") that a key map names
KeyOf(keyMap) == << keyMap[DefaultPartitionKeyAttribute].v, keyMap[DefaultSortKeyAttribute].v >>

\* an evaluation that takes every attribute_not_exists as satisfied
EvalAtomAbsent(item, atom) ==
    CASE atom[1] = "attribute_exists" -> atom[2] \in DOMAIN item
      [] atom[1] = "attribute_not_exists" -> TRUE
      [] atom[1] = "=" -> atom[2] \in DOMAIN item /\ item[atom[2]] = atom[3]

\* an atom of a condition expression evaluated on an item
EvalAtom(item, atom) ==
    CASE atom[1] = "attribute_exists" -> atom[2] \in DOMAIN item
      [] atom[1] = "attribute_not_exists" -> atom[2] \notin DOMAIN item
      [] atom[1] = "=" -> atom[2] \in DOMAIN item /\ item[atom[2]] = atom[3]

\* a condition expression evaluated on the item stored at the key (no item:
\* no attributes)
EvalCondition(item, cond) == \A atom \in cond : EvalAtom(item, atom)

\* an update whose ADD stores the number given in place of the sum
ApplyUpdateOverwriting(item, update) ==
    [a \in DOMAIN item \cup DOMAIN update.set \cup DOMAIN update.add |->
        IF a \in DOMAIN update.set THEN update.set[a]
        ELSE IF a \in DOMAIN update.add
             THEN AttributeValueMemberN(update.add[a])
             ELSE item[a]]

\* an update that puts a new item in place of the stored one: the keys and
\* what the expression names
ApplyUpdateReplacing(item, update) ==
    [a \in { DefaultPartitionKeyAttribute, DefaultSortKeyAttribute }
               \cup DOMAIN update.set \cup DOMAIN update.add |->
        IF a \in DOMAIN update.set THEN update.set[a]
        ELSE IF a \in DOMAIN update.add
             THEN AttributeValueMemberN((IF a \in DOMAIN item THEN item[a].v ELSE 0) + update.add[a])
             ELSE item[a]]

\* an update expression applied to an item: SET assigns, ADD adds to the
\* number stored (0 when the attribute is not there)
ApplyUpdate(item, update) ==
    [a \in DOMAIN item \cup DOMAIN update.set \cup DOMAIN update.add |->
        IF a \in DOMAIN update.set THEN update.set[a]
        ELSE IF a \in DOMAIN update.add
             THEN AttributeValueMemberN((IF a \in DOMAIN item THEN item[a].v ELSE 0) + update.add[a])
             ELSE item[a]]

PutItem(tbl, key, item) ==
    [k \in DOMAIN tbl \cup {key} |-> IF k = key THEN item ELSE tbl[k]]

RemoveItem(tbl, key) == [k \in DOMAIN tbl \ {key} |-> tbl[k]]

\* an UpdateItem that applies the update without evaluating the condition
UpdateItemUnconditional(tbl, input, fault) ==
    LET key == KeyOf(input.Key)
        new == ApplyUpdate(IF key \in DOMAIN tbl THEN ItemAt(tbl, key) ELSE input.Key,
                           input.UpdateExpression)
    IN  IF fault
        THEN [table |-> tbl, err |-> NewError(BackendFailure), Attributes |-> EmptyItem]
        ELSE [table |-> PutItem(tbl, key, new), err |-> NoErr, Attributes |-> new]

\* an UpdateItem that stores the new image and then reports a failed condition
UpdateItemWritingFirst(tbl, input, fault) ==
    LET key == KeyOf(input.Key)
        old == ItemAt(tbl, key)
        new == ApplyUpdate(IF key \in DOMAIN tbl THEN old ELSE input.Key, input.UpdateExpression)
    IN  IF fault
        THEN [table |-> tbl, err |-> NewError(BackendFailure), Attributes |-> EmptyItem]
        ELSE IF ~EvalCondition(old, input.ConditionExpression)
        THEN [table |-> PutItem(tbl, key, new),
              err |-> NewError(ConditionalCheckFailedException), Attributes |-> EmptyItem]
        ELSE [table |-> PutItem(tbl, key, new), err |-> NoErr, Attributes |-> new]

\* client.UpdateItem with ReturnValues ALL_NEW
UpdateItem(tbl, input, fault) ==
    LET key == KeyOf(input.Key)
        old == ItemAt(tbl, key)
        new == ApplyUpdate(IF key \in DOMAIN tbl THEN old ELSE input.Key, input.UpdateExpression)
    IN  IF fault
        THEN [table |-> tbl, err |-> NewError(BackendFailure), Attributes |-> EmptyItem]
        ELSE IF ~EvalCondition(old, input.ConditionExpression)
        THEN [table |-> tbl, err |-> NewError(ConditionalCheckFailedException), Attributes |-> EmptyItem]
        ELSE [table |-> PutItem(tbl, key, new), err |-> NoErr, Attributes |-> new]

\* client.DeleteItem
DeleteItem(tbl, input, fault) ==
    LET key == KeyOf(input.Key)
    IN  IF fault
        THEN [table |-> tbl, err |-> NewError(BackendFailure)]
        ELSE IF ~EvalCondition(ItemAt(tbl, key), input.ConditionExpression)
        THEN [table |-> tbl, err |-> NewError(ConditionalCheckFailedException)]
        ELSE [table |-> RemoveItem(tbl, key), err |-> NoErr]

\* client.GetItem
GetItem(tbl, input, fault) ==
    IF fault
    THEN [err |-> NewError(BackendFailure), Item |-> EmptyItem]
    ELSE [err |-> NoErr, Item |-> ItemAt(tbl, KeyOf(input.Key))]

ValidationException == "ValidationException"

\* the key schema of the table ("") and of its indexes
KeySchema ==
    ("" :> [hash |-> "id", range |-> "name"])
        @@ ("idx_created" :> [hash |-> "id", range |-> "created"])
        @@ ("idx_global_1" :> [hash |-> "pk1", range |-> "sk1"])

\* the attributes that tell where an item stands in an index: the keys of the
\* index and the keys of the table
PositionAttributes(index) ==
    { KeySchema[index].hash, KeySchema[index].range, KeySchema[""].hash, KeySchema[""].range }

\* an item is in an index when it has these attributes, as strings
Indexed(item, index) ==
    \A a \in PositionAttributes(index) : a \in DOMAIN item /\ item[a].t = "S"

\* where an item (or a start key) stands among those of its partition: by the
\* range key of the index, then by the key of the table
Position(item, index) ==
    << item[KeySchema[index].range].v, item[KeySchema[""].hash].v, item[KeySchema[""].range].v >>

\* an order that puts a position before itself too
BeforeOrAt(p, q) ==
    \/ p = q
    \/ Less(p[1], q[1])
    \/ p[1] = q[1] /\ Less(p[2], q[2])
    \/ p[1] = q[1] /\ p[2] = q[2] /\ Less(p[3], q[3])

\* the order of the positions
Before(p, q) ==
    \/ Less(p[1], q[1])
    \/ p[1] = q[1] /\ Less(p[2], q[2])
    \/ p[1] = q[1] /\ p[2] = q[2] /\ Less(p[3], q[3])

RECURSIVE InOrder(_, _, _)
\* the keys of a set in the order in which the index holds their items
InOrder(tbl, keys, index) ==
    IF keys = {} THEN << >>
    ELSE LET first == CHOOSE k \in keys : \A l \in keys \ {k} :
                          Before(Position(tbl[k], index), Position(tbl[l], index))
         IN  << first >> \o InOrder(tbl, keys \ {first}, index)

\* a key condition on an item: the hash key is the value given and the range
\* key, when one is asked for, begins with the prefix
KeyConditionHolds(item, keyCond) ==
    /\ item[keyCond.hash.name] = keyCond.hash.val
    /\ \A r \in { keyCond.range[i] : i \in 1 .. Len(keyCond.range) } :
           HasPrefix(item[r.name].v, r.prefix)

\* a key condition fits an index when it names its keys
KeyConditionFits(keyCond, index) ==
    /\ keyCond.hash.name = KeySchema[index].hash
    /\ keyCond.hash.val.t = "S"
    /\ \A i \in 1 .. Len(keyCond.range) : keyCond.range[i].name = KeySchema[index].range

\* a start key fits a query when it has the position attributes, as strings,
\* and lies in what the key condition selects
StartKeyFits(start, keyCond, index) ==
    /\ DOMAIN start = PositionAttributes(index)
    /\ \A a \in DOMAIN start : start[a].t = "S"
    /\ KeyConditionHolds(start, keyCond)

\* client.Query, on a partition that fits one page: the items the key
\* condition selects, in order, after the start key, at most Limit of them; a
\* last evaluated key is returned when the limit was reached
Query(tbl, input, fault) ==
    LET index == input.IndexName
        keyCond == input.KeyConditionExpression
        startGiven == input.ExclusiveStartKey # << >>
        start == input.ExclusiveStartKey[1]
        selected == { k \in DOMAIN tbl :
                        /\ Indexed(tbl[k], index)
                        /\ KeyConditionHolds(tbl[k], keyCond)
                        /\ startGiven => Before(Position(start, index),
                                                Position(tbl[k], index)) }
        ordered == InOrder(tbl, selected, index)
        limited == input.Limit > 0 /\ Len(ordered) >= input.Limit
        page == IF limited THEN SubSeq(ordered, 1, input.Limit) ELSE ordered
        lastItem == tbl[page[Len(page)]]
        failed(err) == [err |-> NewError(err), Items |-> << >>, LastEvaluatedKey |-> << >>]
    IN  IF fault THEN failed(BackendFailure)
        ELSE IF index \notin DOMAIN KeySchema THEN failed(ValidationException)
        ELSE IF ~KeyConditionFits(keyCond, index) THEN failed(ValidationException)
        ELSE IF startGiven /\ ~StartKeyFits(start, keyCond, index)
        THEN failed(ValidationException)
        ELSE [ err |-> NoErr,
               Items |-> [i \in 1 .. Len(page) |-> tbl[page[i]]],
               LastEvaluatedKey |->
                   IF limited
                   THEN << [a \in PositionAttributes(index) |-> lastItem[a]] >>
                   ELSE << >> ]

----------------------------------------------------------------------------
(* The Store (dynastore.go)                                                *)

\* what a Store method hands back, with the table it leaves behind and the
\* hooks and backend requests of the call, in order
Outcome(tbl, res, val, err, events) ==
    [table |-> tbl, res |-> res, val |-> val, err |-> err, events |-> events]

\* a nil *OperationResult
NilResult == [nil |-> TRUE, Version |-> 0, LastEvaluatedKey |-> << >>]

\* &OperationResult{Version: version}
OperationResult(version) == [nil |-> FALSE, Version |-> version, LastEvaluatedKey |-> << >>]

\* a reserved-field check that leaves the payload attribute out
isReservedFieldNoPayload(k) ==
    k \in { fields.partitionKeyName, fields.sortKeyName, fields.expiresName,
            fields.versionName }

isReservedField(k) ==
    k \in { fields.partitionKeyName, fields.sortKeyName, fields.expiresName,
            fields.versionName, fields.payloadName }

buildKey(partitionKey, sortKey) ==
    (fields.partitionKeyName :> MarshalString(partitionKey))
        @@ (fields.sortKeyName :> MarshalString(sortKey))

\* an expiry from the whole seconds of the time and the whole seconds of the
\* TTL
ExpiresAtWholeParts(now, ttl) == now \div TicksPerSecond + ttl \div TicksPerSecond

\* time.Now().Add(ttl).Unix()
ExpiresAt(now, ttl) == (now + ttl) \div TicksPerSecond

\* an update that assigns version 1 instead of adding 1 to the stored version
buildUpdateSetVersion(value, options, now) ==
    LET update0 == [ add |-> [k \in {} |-> 0],
                     set |-> (fields.versionName :> MarshalInt(1))
                                 @@ ("payload" :> MarshalValue(value)) ]
        extra   == [k \in DOMAIN options.extraFields |-> MarshalString(options.extraFields[k])]
        update1 == [update0 EXCEPT !.set = extra @@ @]
        update2 == IF options.ttl > 0
                   THEN Set(update1, "expires", MarshalInt(ExpiresAt(now, options.ttl)))
                   ELSE update1
    IN  IF \E k \in DOMAIN options.extraFields : isReservedField(k)
        THEN [update |-> update0, err |-> NewError(ErrReservedField)]
        ELSE [update |-> update2, err |-> NoErr]

buildUpdate(value, options, now) ==
    LET update0 == Set(Add(fields.versionName, 1), "payload", MarshalValue(value))
        extra   == [k \in DOMAIN options.extraFields |-> MarshalString(options.extraFields[k])]
        update1 == [update0 EXCEPT !.set = extra @@ @]
        update2 == IF options.ttl > 0
                   THEN Set(update1, "expires", MarshalInt(ExpiresAt(now, options.ttl)))
                   ELSE update1
    IN  IF \E k \in DOMAIN options.extraFields : isReservedField(k)
        THEN [update |-> update0, err |-> NewError(ErrReservedField)]
        ELSE [update |-> update2, err |-> NoErr]

\* a doUpdate that answers a failed condition the way Delete does, with a
\* store-defined error in place of the backend's
doUpdateRemapped(tbl, ctx, partitionKey, sortKey, value, expr, fault) ==
    LET updateItem == [ Key |-> buildKey(partitionKey, sortKey),
                        UpdateExpression |-> expr.update,
                        ConditionExpression |-> expr.condition ]
        ctx1 == RequestBuilt(ctx, partitionKey, sortKey)
        resp == UpdateItem(tbl, updateItem, fault)
        sent == << Event("RequestBuilt", ctx), Event("UpdateItem", ctx1) >>
    IN  IF resp.err # NoErr
        THEN [ table |-> resp.table,
               err |-> IF Is(resp.err, ConditionalCheckFailedException)
                       THEN NewError(ErrDeleteFailedKeyNotExists)
                       ELSE Wrap(resp.err, "dynastorev2: failed to update item"),
               Attributes |-> EmptyItem, events |-> sent ]
        ELSE [ table |-> resp.table, err |-> NoErr, Attributes |-> resp.Attributes,
               events |-> Append(sent, Event("ResponseReceived", ctx1)) ]

\* a doUpdate that invokes ResponseReceived whatever the backend returned
doUpdateResponseAlways(tbl, ctx, partitionKey, sortKey, value, expr, fault) ==
    LET updateItem == [ Key |-> buildKey(partitionKey, sortKey),
                        UpdateExpression |-> expr.update,
                        ConditionExpression |-> expr.condition ]
        ctx1 == RequestBuilt(ctx, partitionKey, sortKey)
        resp == UpdateItem(tbl, updateItem, fault)
        sent == << Event("RequestBuilt", ctx), Event("UpdateItem", ctx1),
                   Event("ResponseReceived", ctx1) >>
    IN  IF resp.err # NoErr
        THEN [ table |-> resp.table, err |-> Wrap(resp.err, "dynastorev2: failed to update item"),
               Attributes |-> EmptyItem, events |-> sent ]
        ELSE [ table |-> resp.table, err |-> NoErr, Attributes |-> resp.Attributes,
               events |-> sent ]

\* Store.doUpdate
doUpdate(tbl, ctx, partitionKey, sortKey, value, expr, fault) ==
    LET updateItem == [ Key |-> buildKey(partitionKey, sortKey),
                        UpdateExpression |-> expr.update,
                        ConditionExpression |-> expr.condition ]
        ctx1 == RequestBuilt(ctx, partitionKey, sortKey)
        resp == UpdateItem(tbl, updateItem, fault)
        sent == << Event("RequestBuilt", ctx), Event("UpdateItem", ctx1) >>
    IN  IF resp.err # NoErr
        THEN [ table |-> resp.table, err |-> Wrap(resp.err, "dynastorev2: failed to update item"),
               Attributes |-> EmptyItem, events |-> sent ]
        ELSE [ table |-> resp.table, err |-> NoErr, Attributes |-> resp.Attributes,
               events |-> Append(sent, Event("ResponseReceived", ctx1)) ]

\* a result that is built without reading the version of the new image
versionResultUnread(r, message) ==
    Outcome(r.table, OperationResult(0), ZeroValue, NoErr, r.events)

\* the tail of Create and of Update: the version of the new image; the text
\* an undecodable version is wrapped in is that of the method
versionResult(r, message) ==
    LET dec == IF fields.versionName \in DOMAIN r.Attributes
               THEN UnmarshalInt(r.Attributes[fields.versionName])
               ELSE [err |-> NoErr, val |-> 0]
    IN  IF dec.err # NoErr
        THEN Outcome(r.table, NilResult, ZeroValue, Wrap(dec.err, message), r.events)
        ELSE Outcome(r.table, OperationResult(dec.val), ZeroValue, NoErr, r.events)

\* a condition on attribute names that no item of the table has
createConditionOtherNames ==
    And(AttributeNotExists("pk"), AttributeNotExists("sk"))

\* the condition Create assigns: whatever the write options are
createCondition ==
    And(AttributeNotExists(fields.partitionKeyName), AttributeNotExists(fields.sortKeyName))

\* a Create whose condition takes the expected version of the options in
CreateVersioned(tbl, now, partitionKey, sortKey, value, options, fault) ==
    LET ctx == setOperationDetails(Background, "Create", partitionKey, sortKey)
        defaultOpts == applyWriteOptions(defaultWriteOptions, options)
        built == buildUpdate(value, defaultOpts, now)
        condition == IF defaultOpts.version > 0
                     THEN And(createCondition,
                              Equal(fields.versionName, MarshalInt(defaultOpts.version)))
                     ELSE createCondition
        expr == Build(WithCondition(WithUpdate(NewBuilder, built.update), condition))
        result == doUpdate(tbl, ctx, partitionKey, sortKey, value, expr.expr, fault)
    IN  IF built.err # NoErr
        THEN Outcome(tbl, NilResult, ZeroValue,
                     Wrap(built.err, "dynastorev2: failed to build update"), << >>)
        ELSE IF expr.err # NoErr
        THEN Outcome(tbl, NilResult, ZeroValue,
                     Wrap(expr.err, "dynastorev2: failed to build update expression"), << >>)
        ELSE IF result.err # NoErr
        THEN Outcome(result.table, NilResult, ZeroValue, result.err, result.events)
        ELSE versionResult(result, "failed to extract version attribute")

\* Store.Create
Create(tbl, now, partitionKey, sortKey, value, options, fault) ==
    LET ctx == setOperationDetails(Background, "Create", partitionKey, sortKey)
        defaultOpts == applyWriteOptions(defaultWriteOptions, options)
        built == buildUpdate(value, defaultOpts, now)
        expr == Build(WithCondition(WithUpdate(NewBuilder, built.update), createCondition))
        result == doUpdate(tbl, ctx, partitionKey, sortKey, value, expr.expr, fault)
    IN  IF built.err # NoErr
        THEN Outcome(tbl, NilResult, ZeroValue,
                     Wrap(built.err, "dynastorev2: failed to build update"), << >>)
        ELSE IF expr.err # NoErr
        THEN Outcome(tbl, NilResult, ZeroValue,
                     Wrap(expr.err, "dynastorev2: failed to build update expression"), << >>)
        ELSE IF result.err # NoErr
        THEN Outcome(result.table, NilResult, ZeroValue, result.err, result.events)
        ELSE versionResult(result, "failed to extract version attribute")

\* an update condition that leaves the expected version out
updateConditionNoVersion(defaultOpts) ==
    And(AttributeExists(fields.partitionKeyName), AttributeExists(fields.sortKeyName))

\* an update condition that does not ask for the record to exist
updateConditionNoExists(defaultOpts) ==
    IF defaultOpts.version > 0
    THEN Equal(fields.versionName, MarshalInt(defaultOpts.version))
    ELSE {}

\* an update condition that compares the version whenever one is given
updateConditionNonZero(defaultOpts) ==
    LET exists == And(AttributeExists(fields.partitionKeyName),
                      AttributeExists(fields.sortKeyName))
    IN  IF defaultOpts.version # 0
        THEN And(exists, Equal(fields.versionName, MarshalInt(defaultOpts.version)))
        ELSE exists

\* the condition Update assigns
updateCondition(defaultOpts) ==
    LET exists == And(AttributeExists(fields.partitionKeyName),
                      AttributeExists(fields.sortKeyName))
    IN  IF defaultOpts.version > 0
        THEN And(exists, Equal(fields.versionName, MarshalInt(defaultOpts.version)))
        ELSE exists

Update(tbl, now, partitionKey, sortKey, value, options, fault) ==
    LET ctx == setOperationDetails(Background, "Update", partitionKey, sortKey)
        defaultOpts == applyWriteOptions(defaultWriteOptions, options)
        built == buildUpdate(value, defaultOpts, now)
        expr == Build(WithCondition(WithUpdate(NewBuilder, built.update),
                                    updateCondition(defaultOpts)))
        result == doUpdate(tbl, ctx, partitionKey, sortKey, value, expr.expr, fault)
    IN  IF built.err # NoErr
        THEN Outcome(tbl, NilResult, ZeroValue,
                     Wrap(built.err, "dynastorev2: failed to build update"), << >>)
        ELSE IF expr.err # NoErr
        THEN Outcome(tbl, NilResult, ZeroValue,
                     Wrap(expr.err, "dynastorev2: failed to build update expression"), << >>)
        ELSE IF result.err # NoErr
        THEN Outcome(result.table, NilResult, ZeroValue, result.err, result.events)
        ELSE versionResult(result, "dynastorev2: failed to extract version attribute")

\* a decoding that reports an item without payload as an error
decodeItemNotFound(tbl, item, events) ==
    IF fields.payloadName \notin DOMAIN item
    THEN Outcome(tbl, NilResult, ZeroValue, NewError("dynastorev2: record not found"), events)
    ELSE Outcome(tbl, OperationResult(StoredVersion(item)), item[fields.payloadName].v,
                 NoErr, events)

\* a decoding that reads the version of the item and leaves the payload out
decodeItemVersionOnly(tbl, item, events) ==
    Outcome(tbl, OperationResult(StoredVersion(item)), ZeroValue, NoErr, events)

\* the tail of Get: the payload and the version of the item read, each decoded
\* only when the attribute is there
decodeItem(tbl, item, events) ==
    LET val == IF fields.payloadName \in DOMAIN item
               THEN UnmarshalValue(item[fields.payloadName])
               ELSE [err |-> NoErr, val |-> ZeroValue]
        version == IF fields.versionName \in DOMAIN item
                   THEN UnmarshalInt(item[fields.versionName])
                   ELSE [err |-> NoErr, val |-> 0]
    IN  IF val.err # NoErr
        THEN Outcome(tbl, NilResult, val.val,
                     Wrap(val.err, "dynastorev2: failed to unmarshal payload attribute"), events)
        ELSE IF version.err # NoErr
        THEN Outcome(tbl, NilResult, val.val,
                     Wrap(version.err, "dynastorev2: failed to extract version attribute"), events)
        ELSE Outcome(tbl, OperationResult(version.val), val.val, NoErr, events)

\* a Get that takes the record it reads out of the table
GetRemoving(tbl, partitionKey, sortKey, options, fault) ==
    LET ctx == setOperationDetails(Background, "Get", partitionKey, sortKey)
        defaultOpts == applyReadOptions(defaultReadOptions, options)
        getItem == [ Key |-> buildKey(partitionKey, sortKey),
                     ConsistentRead |-> defaultOpts.consistentRead ]
        ctx1 == RequestBuilt(ctx, partitionKey, sortKey)
        readResp == GetItem(tbl, getItem, fault)
        sent == << Event("RequestBuilt", ctx), Event("GetItem", ctx1) >>
    IN  IF readResp.err # NoErr
        THEN Outcome(tbl, NilResult, ZeroValue,
                     Wrap(readResp.err, "dynastorev2: failed to get record"), sent)
        ELSE decodeItem(RemoveItem(tbl, <<partitionKey, sortKey>>), readResp.Item,
                        Append(sent, Event("ResponseReceived", ctx1)))

\* Store.Get
Get(tbl, partitionKey, sortKey, options, fault) ==
    LET ctx == setOperationDetails(Background, "Get", partitionKey, sortKey)
        defaultOpts == applyReadOptions(defaultReadOptions, options)
        getItem == [ Key |-> buildKey(partitionKey, sortKey),
                     ConsistentRead |-> defaultOpts.consistentRead ]
        ctx1 == RequestBuilt(ctx, partitionKey, sortKey)
        readResp == GetItem(tbl, getItem, fault)
        sent == << Event("RequestBuilt", ctx), Event("GetItem", ctx1) >>
    IN  IF readResp.err # NoErr
        THEN Outcome(tbl, NilResult, ZeroValue,
                     Wrap(readResp.err, "dynastorev2: failed to get record"), sent)
        ELSE decodeItem(tbl, readResp.Item, Append(sent, Event("ResponseReceived", ctx1)))

\* an encoder that never hands a cursor back
encodeLastEvaluatedKeyNone(res) == [err |-> NoErr, key |-> << >>]

parseLastEvaluatedKey(lastEvaluatedKey, queryInput) ==
    LET decoded == DecodeString(lastEvaluatedKey)
        parsed == jsonUnmarshal(decoded.data)
    IN  IF decoded.err # NoErr
        THEN [ err |-> Wrap(decoded.err, "dynastorev2: failed to decode last evaluated key"),
               queryInput |-> queryInput ]
        ELSE IF parsed.err # NoErr
        THEN [ err |-> Wrap(parsed.err, "dynastorev2: failed to unmarshal last evaluated key"),
               queryInput |-> queryInput ]
        ELSE [ err |-> NoErr,
               queryInput |-> [queryInput EXCEPT !.ExclusiveStartKey = << MarshalMap(parsed.m) >>] ]

\* an encoder without the nil check: no key is encoded as a key of no
\* attributes
encodeLastEvaluatedKeyOfNil(res) ==
    LET m == UnmarshalMap(IF res.LastEvaluatedKey = << >> THEN EmptyItem
                          ELSE res.LastEvaluatedKey[1])
    IN  IF m.err # NoErr
        THEN [ err |-> Wrap(m.err, "dynastorev2: failed to unmarshal last evaluated key to map"),
               key |-> << >> ]
        ELSE [err |-> NoErr, key |-> EncodeToString(jsonMarshal(m.m))]

\* res.LastEvaluatedKey is << >> when nil, and the map in a sequence otherwise
encodeLastEvaluatedKey(res) ==
    LET m == UnmarshalMap(res.LastEvaluatedKey[1])
    IN  IF res.LastEvaluatedKey = << >> THEN [err |-> NoErr, key |-> << >>]
        ELSE IF m.err # NoErr
        THEN [ err |-> Wrap(m.err, "dynastorev2: failed to unmarshal last evaluated key to map"),
               key |-> << >> ]
        ELSE [err |-> NoErr, key |-> EncodeToString(jsonMarshal(m.m))]

\* &OperationResult{LastEvaluatedKey: lastEvaluatedKey}
ListResult(lastEvaluatedKey) ==
    [nil |-> FALSE, Version |-> 0, LastEvaluatedKey |-> lastEvaluatedKey]

\* a key condition that leaves the sort key out
listKeyConditionPartitionOnly(partitionKeyName, pk, sortKeyName, prefix) ==
    KeyAnd(KeyEqual(partitionKeyName, pk), << >>)

\* the key condition of a listing
listKeyCondition(partitionKeyName, pk, sortKeyName, prefix) ==
    KeyAnd(KeyEqual(partitionKeyName, pk), KeyBeginsWith(sortKeyName, prefix))

\* the tail of ListBySortKeyPrefix: the payloads as decoded, up to the first
\* that fails, and the cursor as encoded
listValues(tbl, sent, decoded, lastEvaluatedKey) ==
    LET bad == { i \in 1 .. Len(decoded) : decoded[i].err # NoErr }
        firstBad == CHOOSE i \in bad : \A j \in bad : i <= j
        vals == [i \in 1 .. Len(decoded) |-> decoded[i].val]
    IN  IF bad # {}
        THEN Outcome(tbl, NilResult, SubSeq(vals, 1, firstBad - 1),
                     Wrap(decoded[firstBad].err, "dynastorev2: failed to unmarshal item"), sent)
        ELSE IF lastEvaluatedKey.err # NoErr
        THEN Outcome(tbl, NilResult, vals, lastEvaluatedKey.err, sent)
        ELSE Outcome(tbl, ListResult(lastEvaluatedKey.key), vals, NoErr, sent)

\* the time of a listing made after every expiry the model sets has passed
ListedAt == (CHOOSE t \in Times : \A u \in Times : u <= t) + 3 * TicksPerSecond

\* the expiry of an item has passed at the time of the listing
Expired(item) ==
    /\ fields.expiresName \in DOMAIN item
    /\ item[fields.expiresName].v < ListedAt \div TicksPerSecond

\* a listing that leaves the expired items of the response out
listItemsUnexpired(tbl, sent, res) ==
    IF res.err # NoErr
    THEN Outcome(tbl, NilResult, << >>,
                 Wrap(res.err, "dynastorev2: failed to execute query"), sent)
    ELSE LET items == SelectSeq(res.Items, LAMBDA item : ~Expired(item))
         IN  listValues(tbl, sent,
                        [i \in 1 .. Len(items) |->
                            IF fields.payloadName \in DOMAIN items[i]
                            THEN UnmarshalValue(items[i][fields.payloadName])
                            ELSE [err |-> NoErr, val |-> ZeroValue]],
                        encodeLastEvaluatedKey(res))

\* ListBySortKeyPrefix from the response of the query on
listItems(tbl, sent, res) ==
    IF res.err # NoErr
    THEN Outcome(tbl, NilResult, << >>,
                 Wrap(res.err, "dynastorev2: failed to execute query"), sent)
    ELSE listValues(tbl, sent,
                    [i \in 1 .. Len(res.Items) |->
                        IF fields.payloadName \in DOMAIN res.Items[i]
                        THEN UnmarshalValue(res.Items[i][fields.payloadName])
                        ELSE [err |-> NoErr, val |-> ZeroValue]],
                    encodeLastEvaluatedKey(res))

\* ListBySortKeyPrefix from the cursor as parsed on: the limit, the query
listSend(tbl, ctx, defaultOpts, parsed, fault) ==
    IF parsed.err # NoErr
    THEN Outcome(tbl, NilResult, << >>, parsed.err, << >>)
    ELSE listItems(tbl, << Event("Query", ctx) >>,
                   Query(tbl,
                         IF defaultOpts.limit > 0
                         THEN [parsed.queryInput EXCEPT !.Limit = defaultOpts.limit]
                         ELSE parsed.queryInput,
                         fault))

\* ListBySortKeyPrefix from the query input as built on: the cursor
listParse(tbl, ctx, defaultOpts, queryInput, fault) ==
    listSend(tbl, ctx, defaultOpts,
             IF defaultOpts.lastEvaluatedKey # << >>
             THEN parseLastEvaluatedKey(defaultOpts.lastEvaluatedKey, queryInput)
             ELSE [err |-> NoErr, queryInput |-> queryInput],
             fault)

\* the body of ListBySortKeyPrefix, for the read options as applied and the
\* index and key attribute names the query is made with
listQuery(tbl, partitionKey, prefix, defaultOpts, indexName, partitionKeyName, sortKeyName, fault) ==
    LET ctx == setOperationDetails(Background, "ListBySortKeyPrefix", partitionKey, prefix)
        pk == MarshalString(partitionKey)
        keyCond == listKeyCondition(partitionKeyName, pk, sortKeyName, prefix)
        expr == Build(WithKeyCondition(NewBuilder, keyCond))
    IN  IF expr.err # NoErr
        THEN Outcome(tbl, NilResult, << >>,
                     Wrap(expr.err, "dynastorev2: failed to build list expression"), << >>)
        ELSE listParse(tbl, ctx, defaultOpts,
                       [ KeyConditionExpression |-> expr.expr.keyCondition,
                         IndexName |-> indexName,
                         ExclusiveStartKey |-> << >>,
                         Limit |-> 0 ],
                       fault)

\* val of the outcome is the slice of values; no hook is invoked
ListBySortKeyPrefix(tbl, partitionKey, prefix, options, fault) ==
    listQuery(tbl, partitionKey, prefix, applyReadOptions(defaultReadOptions, options),
              "", fields.partitionKeyName, fields.sortKeyName, fault)

\* the read options with the index a listing is redirected to ("": none)
defaultIndexReadOptions ==
    [ consistentRead |-> FALSE, lastEvaluatedKey |-> << >>, limit |-> 0,
      indexName |-> "", indexPartitionKeyName |-> "", indexSortKeyName |-> "" ]

\* ReadWithIndex(name, partitionKeyName, sortKeyName)
readWithIndex(name, partitionKeyName, sortKeyName) ==
    [ indexName |-> name, indexPartitionKeyName |-> partitionKeyName,
      indexSortKeyName |-> sortKeyName ]

\* a listing that takes the index name and leaves the key attributes of the
\* table in the key condition
ListBySortKeyPrefixIndexTableKeys(tbl, partitionKey, prefix, options, fault) ==
    LET defaultOpts == applyReadOptions(defaultIndexReadOptions, options)
    IN  listQuery(tbl, partitionKey, prefix, defaultOpts, defaultOpts.indexName,
                  fields.partitionKeyName, fields.sortKeyName, fault)

\* ListBySortKeyPrefix with the index option: with an index named, the query
\* is made on the index with its key attribute names
ListBySortKeyPrefixIndex(tbl, partitionKey, prefix, options, fault) ==
    LET defaultOpts == applyReadOptions(defaultIndexReadOptions, options)
    IN  IF defaultOpts.indexName # ""
        THEN listQuery(tbl, partitionKey, prefix, defaultOpts, defaultOpts.indexName,
                       defaultOpts.indexPartitionKeyName, defaultOpts.indexSortKeyName, fault)
        ELSE listQuery(tbl, partitionKey, prefix, defaultOpts, "",
                       fields.partitionKeyName, fields.sortKeyName, fault)

\* a Delete that passes the backend's error on without looking at it
deleteFailedWrapped(err) == Wrap(err, "dynastorev2: failed to delete record")

\* a Delete that takes a failed condition for a record already gone
deleteFailedSwallowed(err) ==
    IF Is(err, ConditionalCheckFailedException)
    THEN NoErr
    ELSE Wrap(err, "dynastorev2: failed to delete record")

\* a Delete that takes every failure of DeleteItem for a missing record
deleteFailedAsMissing(err) == NewError(ErrDeleteFailedKeyNotExists)

\* the error Delete returns when DeleteItem failed
deleteFailed(err) ==
    IF Is(err, ConditionalCheckFailedException)
    THEN NewError(ErrDeleteFailedKeyNotExists)
    ELSE Wrap(err, "dynastorev2: failed to delete record")

\* the expression builder of Delete: the condition is added only when the
\* check is enabled
deleteBuilder(defaultOpts) ==
    IF defaultOpts.existsCheck
    THEN WithCondition(NewBuilder, And(AttributeExists(fields.partitionKeyName),
                                       AttributeExists(fields.sortKeyName)))
    ELSE NewBuilder

\* Delete returns only an error: res is nil in every outcome
Delete(tbl, partitionKey, sortKey, options, fault) ==
    LET ctx == setOperationDetails(Background, "Delete", partitionKey, sortKey)
        defaultOpts == applyDeleteOptions(defaultDeleteOptions, options)
        expr == Build(deleteBuilder(defaultOpts))
        deleteItem == [ Key |-> buildKey(partitionKey, sortKey),
                        ConditionExpression |-> expr.expr.condition ]
        ctx1 == RequestBuilt(ctx, partitionKey, sortKey)
        resp == DeleteItem(tbl, deleteItem, fault)
        sent == << Event("RequestBuilt", ctx), Event("DeleteItem", ctx1) >>
    IN  IF expr.err # NoErr
        THEN Outcome(tbl, NilResult, ZeroValue,
                     Wrap(expr.err, "dynastorev2: failed to build update expression"), << >>)
        ELSE IF resp.err # NoErr
        THEN Outcome(resp.table, NilResult, ZeroValue, deleteFailed(resp.err), sent)
        ELSE Outcome(resp.table, NilResult, ZeroValue, NoErr,
                     Append(sent, Event("ResponseReceived", ctx1)))

----------------------------------------------------------------------------
(* Arguments of the calls                                                  *)

ReservedNames ==
    { DefaultPartitionKeyAttribute, DefaultSortKeyAttribute, DefaultExpiresAttribute,
      DefaultVersionAttribute, DefaultPayloadAttribute }

\* extra fields with no reserved name
PlainFields == { "created" :> "20250101" }

\* extra fields with a reserved name, alone or beside another name
ReservedFields ==
    { r :> "abc123" : r \in ReservedNames }
        \cup { ("created" :> "20250101") @@ (DefaultPartitionKeyAttribute :> "abc123") }

ExtraFieldMaps == PlainFields \cup ReservedFields

WriteOptions ==
    { writeWithTTL(t) : t \in TTLs }
        \cup { writeWithVersion(e) : e \in ExpectedVersions }
        \cup { writeWithExtraFields(f) : f \in ExtraFieldMaps }
        \cup { writeWithCreateConstraintDisabled(b) : b \in BOOLEAN }

\* the option lists of a write: none, one option, or a positive TTL and one more
\* option that passes the reserved-field check
WriteOptionLists ==
    { << >> } \cup { << o >> : o \in WriteOptions }
        \cup { << writeWithTTL(t), o >> :
                    t \in { u \in TTLs : u > 0 },
                    o \in WriteOptions \ { writeWithExtraFields(f) : f \in ReservedFields } }

\* the backend answers every request / a request may fail in the backend
NoFaults == { FALSE }
Faults == BOOLEAN

DeleteOptionLists == { << >> } \cup { << deleteWithCheck(b) >> : b \in BOOLEAN }

ReadOptionLists == { << >> } \cup { << readWithConsistentRead(b) >> : b \in BOOLEAN }

----------------------------------------------------------------------------
(* The Store instance, and the calls that share it                         *)

\* New with no store option: the client, the table name, the field names and
\* the default hooks
New ==
    [ client |-> "client", tableName |-> "table", fields |-> fields,
      storeOptions |-> [ storeHooks |-> << "RequestBuilt", "ResponseReceived" >> ] ]

\* the goroutines that call the store
Callers == { "g1", "g2", "g3" }

\* a goroutine that is in no call
NoCall ==
    [ stage |-> "idle", op |-> "", options |-> << >>, defaultOpts |-> EmptyFields,
      err |-> NoErr, res |-> NilResult, val |-> ZeroValue ]

NoCalls == [g \in Callers |-> NoCall]

\* a store that keeps the option struct of a call in a field of its own, and
\* builds the options of every call in it
ownOptionsKept(s, op, options) ==
    LET kept == IF "options" \in DOMAIN s.storeOptions
                THEN s.storeOptions.options
                ELSE [ Create |-> defaultWriteOptions, Update |-> defaultWriteOptions,
                       Get |-> defaultReadOptions, ListBySortKeyPrefix |-> defaultReadOptions,
                       Delete |-> defaultDeleteOptions ]
        defaultOpts == applyOptions(kept[op], options)
    IN  [ store |-> [s EXCEPT !.storeOptions =
                         [ storeHooks |-> s.storeOptions.storeHooks,
                           options |-> [kept EXCEPT ![op] = defaultOpts] ]],
          defaultOpts |-> defaultOpts ]

\* the head of every method: the defaults are allocated by the call and the
\* options of the call applied to them; the store is read and not assigned
ownOptions(s, op, options) ==
    [ store |-> s,
      defaultOpts |->
          CASE op \in { "Create", "Update" } ->
                   applyWriteOptions(defaultWriteOptions, options)
            [] op \in { "Get", "ListBySortKeyPrefix" } ->
                   applyReadOptions(defaultReadOptions, options)
            [] op = "Delete" ->
                   applyDeleteOptions(defaultDeleteOptions, options) ]

----------------------------------------------------------------------------
(* The specification: calls on one store, one at a time                    *)

\* the record of a call: which method, on which key, what it returned, and
\* what was stored at the key when it was made
Called(op, pk, sk, out, tbl) ==
    [ op |-> op, partitionKey |-> pk, sortKey |-> sk,
      err |-> out.err, res |-> out.res, val |-> out.val, events |-> out.events,
      existed |-> (<<pk, sk>> \in DOMAIN tbl),
      versionBefore |-> StoredVersion(ItemAt(tbl, <<pk, sk>>)) ]

Init ==
    /\ table = [k \in {} |-> EmptyItem]
    /\ last = Called("", "", "", Outcome(table, NilResult, ZeroValue, NoErr, << >>), table)
    /\ store = New
    /\ calls = NoCalls

CallCreate(F) ==
    \E pk \in PKeys, sk \in SKeys, v \in Values, now \in Times,
       options \in WriteOptionLists, fault \in F :
        LET out == Create(table, now, pk, sk, v, options, fault)
        IN  /\ StoredVersion(ItemAt(table, <<pk, sk>>)) < MaxVersion
            /\ table' = out.table
            /\ last' = Called("Create", pk, sk, out, table)
            /\ UNCHANGED <<store, calls>>

CallUpdate(F) ==
    \E pk \in PKeys, sk \in SKeys, v \in Values, now \in Times,
       options \in WriteOptionLists, fault \in F :
        LET out == Update(table, now, pk, sk, v, options, fault)
        IN  /\ StoredVersion(ItemAt(table, <<pk, sk>>)) < MaxVersion
            /\ table' = out.table
            /\ last' = Called("Update", pk, sk, out, table)
            /\ UNCHANGED <<store, calls>>

CallGet(F) ==
    \E pk \in PKeys, sk \in SKeys, options \in ReadOptionLists, fault \in F :
        LET out == Get(table, pk, sk, options, fault)
        IN  /\ table' = out.table
            /\ last' = Called("Get", pk, sk, out, table)
            /\ UNCHANGED <<store, calls>>

CallDelete(F) ==
    \E pk \in PKeys, sk \in SKeys, options \in DeleteOptionLists, fault \in F :
        LET out == Delete(table, pk, sk, options, fault)
        IN  /\ table' = out.table
            /\ last' = Called("Delete", pk, sk, out, table)
            /\ UNCHANGED <<store, calls>>

\* calls on a backend that answers every request
Next == CallCreate(NoFaults) \/ CallUpdate(NoFaults) \/ CallGet(NoFaults) \/ CallDelete(NoFaults)

Spec == Init /\ [][Next]_vars

\* calls on a backend in which any request may fail
NextFault == CallCreate(Faults) \/ CallUpdate(Faults) \/ CallGet(Faults) \/ CallDelete(Faults)

SpecFault == Init /\ [][NextFault]_vars

----------------------------------------------------------------------------
(* Listings: calls on a table of records whose sort keys share prefixes     *)

ListPKeys == { << "p" >>, << "q" >> }
ListSKeys == { << "a", "/", "1" >>, << "a", "/", "2" >>, << "a", "b" >>, << "b" >> }
ListKeys == ({ << "p" >> } \X ListSKeys) \cup { << << "q" >>, << "a", "/", "1" >> >> }
Prefixes == { << "a" >>, << "a", "/" >>, << "b" >> }

\* ReadWithLimit arguments (0: no limit option)
Limits == { 0, 1, 2 }

\* the read options of a listing: a limit, a cursor, both or none
ListOptions(limit, cursor) ==
    (IF limit > 0 THEN << readWithLimit(limit) >> ELSE << >>)
        \o (IF cursor # << >> THEN << readWithLastEvaluatedKey(cursor) >> ELSE << >>)

\* the record of a listing: as for the other calls, with the cursor, the limit
\* and the index ("": none) it was given
ListCalled(pk, prefix, cursor, limit, index, out, tbl) ==
    [ op |-> "ListBySortKeyPrefix", partitionKey |-> pk, sortKey |-> prefix,
      err |-> out.err, res |-> out.res, val |-> out.val, events |-> out.events,
      existed |-> (<<pk, prefix>> \in DOMAIN tbl),
      versionBefore |-> StoredVersion(ItemAt(tbl, <<pk, prefix>>)),
      cursor |-> cursor, limit |-> limit, index |-> index ]

CallCreateListed ==
    \E key \in ListKeys, v \in Values, now \in Times :
        LET out == Create(table, now, key[1], key[2], v, << >>, FALSE)
        IN  /\ table' = out.table
            /\ last' = Called("Create", key[1], key[2], out, table)
            /\ UNCHANGED <<store, calls>>

\* a listing, without a cursor or with the cursor of the call before
CallList ==
    \E pk \in ListPKeys, prefix \in Prefixes, limit \in Limits,
       cursor \in { << >>, last.res.LastEvaluatedKey } :
        LET out == ListBySortKeyPrefix(table, pk, prefix, ListOptions(limit, cursor), FALSE)
        IN  /\ table' = out.table
            /\ last' = ListCalled(pk, prefix, cursor, limit, "", out, table)
            /\ UNCHANGED <<store, calls>>

NextList == CallCreateListed \/ CallList

SpecList == Init /\ [][NextList]_vars

----------------------------------------------------------------------------
(* The cursor codec on its own: a last evaluated key is encoded, and the    *)
(* cursor is parsed into the exclusive start key of a query                 *)

\* characters of key values: a letter, and those that JSON writes escaped
CursorChars == { "a", "/", "\"", "\\", "<" }

\* key values of one and of two characters
CursorStrings ==
    { << c >> : c \in CursorChars } \cup { << c, d >> : c \in CursorChars, d \in CursorChars }

\* last evaluated keys of string attributes: a hash key, a range key, or both
TextKeys ==
    { "id" :> MarshalString(v) : v \in CursorStrings }
        \cup { "name" :> MarshalString(v) : v \in CursorStrings }
        \cup { ("id" :> MarshalString(v)) @@ ("name" :> MarshalString(w)) :
                   v \in CursorStrings, w \in CursorStrings }

\* last evaluated keys with a number or a binary attribute, and the empty one
OtherKeys ==
    { ("id" :> MarshalString(<< "a" >>)) @@ ("sk1" :> MarshalInt(n)) : n \in {7, 42} }
        \cup { ("id" :> MarshalString(<< "a" >>)) @@ ("sk1" :> MarshalValue("data")) }
        \cup { EmptyItem }

LastEvaluatedKeys == TextKeys \cup OtherKeys

\* a query input with no start key
NoStartKey ==
    [ KeyConditionExpression |->
          listKeyCondition(fields.partitionKeyName, MarshalString(<< "p" >>),
                           fields.sortKeyName, << "a" >>),
      IndexName |-> "", ExclusiveStartKey |-> << >>, Limit |-> 0 ]

InitCursor ==
    /\ table = [k \in {} |-> EmptyItem]
    /\ \E key \in LastEvaluatedKeys :
           last = [ op |-> "", key |-> key, cursor |-> << >>, start |-> << >>, err |-> NoErr ]
    /\ store = New
    /\ calls = NoCalls

CallEncode ==
    /\ last.op = ""
    /\ LET encoded == encodeLastEvaluatedKey([LastEvaluatedKey |-> << last.key >>])
       IN  last' = [last EXCEPT !.op = "encodeLastEvaluatedKey",
                                !.cursor = encoded.key, !.err = encoded.err]
    /\ UNCHANGED <<table, store, calls>>

CallParse ==
    /\ last.op = "encodeLastEvaluatedKey" /\ last.err = NoErr
    /\ LET parsed == parseLastEvaluatedKey(last.cursor, NoStartKey)
       IN  last' = [last EXCEPT !.op = "parseLastEvaluatedKey",
                                !.start = parsed.queryInput.ExclusiveStartKey,
                                !.err = parsed.err]
    /\ UNCHANGED <<table, store, calls>>

NextCursor == CallEncode \/ CallParse

SpecCursor == InitCursor /\ [][NextCursor]_vars

----------------------------------------------------------------------------
(* Listings by a secondary index: records written with the key attributes   *)
(* of an index among their extra fields                                     *)

IndexedKeys ==
    ({ << "p" >> } \X { << "a", "/", "1" >>, << "b" >> })
        \cup { << << "q" >>, << "a", "/", "1" >> >> }

\* extra fields: none, the range key of the local index, the keys of the
\* global index
IndexFields ==
    { EmptyFields, "created" :> << "2", "0" >>, "created" :> << "3", "0" >>,
      ("pk1" :> << "q" >>) @@ ("sk1" :> << "2", "0" >>) }

\* the indexes of the table, as ReadWithIndex names them
Indexes ==
    { readWithIndex(name, KeySchema[name].hash, KeySchema[name].range) :
          name \in DOMAIN KeySchema \ { "" } }

IndexPrefixes == { << "2" >>, << "2", "0" >>, << "3" >> }

CallCreateIndexed ==
    \E key \in IndexedKeys, v \in Values, now \in Times, f \in IndexFields :
        LET out == Create(table, now, key[1], key[2], v, << writeWithExtraFields(f) >>, FALSE)
        IN  /\ table' = out.table
            /\ last' = Called("Create", key[1], key[2], out, table)
            /\ UNCHANGED <<store, calls>>

CallListIndex ==
    \E pk \in ListPKeys, prefix \in IndexPrefixes, index \in Indexes :
        LET out == ListBySortKeyPrefixIndex(table, pk, prefix, << index >>, FALSE)
        IN  /\ table' = out.table
            /\ last' = ListCalled(pk, prefix, << >>, 0, index.indexName, out, table)
            /\ UNCHANGED <<store, calls>>

NextIndex == CallCreateIndexed \/ CallListIndex

SpecIndex == Init /\ [][NextIndex]_vars

----------------------------------------------------------------------------
(* Paging: once the records are written, a caller lists them page by page,  *)
(* each call with the limit of the first and the cursor of the call before  *)

\* the calls a caller makes at most to page through one listing
MaxPages == 6

\* the record of a page: the listing it belongs to, what the call returned,
\* the values of the pages so far, and how many pages there were
Paged(pk, prefix, cursor, limit, out, vals, pages) ==
    [ op |-> "ListBySortKeyPrefix", partitionKey |-> pk, sortKey |-> prefix,
      err |-> out.err, res |-> out.res, val |-> out.val, events |-> out.events,
      cursor |-> cursor, limit |-> limit, listed |-> vals \o out.val, pages |-> pages ]

InitPages ==
    /\ table = [k \in {} |-> EmptyItem]
    /\ last = [Paged(<< >>, << >>, << >>, 0,
                     Outcome(table, NilResult, << >>, NoErr, << >>), << >>, 0)
                   EXCEPT !.op = ""]
    /\ store = New
    /\ calls = NoCalls

\* the records are written before the listing starts
CreateBeforePaging ==
    /\ last.op = ""
    /\ \E key \in ListKeys, v \in Values, now \in Times :
           table' = Create(table, now, key[1], key[2], v, << >>, FALSE).table
    /\ UNCHANGED <<last, store, calls>>

\* the first page: a limit and no cursor
FirstPage ==
    /\ last.op = ""
    /\ \E pk \in ListPKeys, prefix \in Prefixes, limit \in Limits \ {0} :
           LET out == ListBySortKeyPrefix(table, pk, prefix, ListOptions(limit, << >>), FALSE)
           IN  /\ table' = out.table
               /\ last' = Paged(pk, prefix, << >>, limit, out, << >>, 1)
    /\ UNCHANGED <<store, calls>>

\* the caller holds a cursor and goes on: the guard of NextPage
HoldsCursor ==
    /\ last.op = "ListBySortKeyPrefix"
    /\ last.err = NoErr /\ last.res.LastEvaluatedKey # << >>
    /\ last.pages < MaxPages

\* the page after: the same limit and the cursor of the page before
NextPage ==
    /\ HoldsCursor
    /\ \E out \in { ListBySortKeyPrefix(table, last.partitionKey, last.sortKey,
                        ListOptions(last.limit, last.res.LastEvaluatedKey), FALSE) } :
           /\ table' = out.table
           /\ last' = Paged(last.partitionKey, last.sortKey, last.res.LastEvaluatedKey,
                            last.limit, out, last.listed, last.pages + 1)
    /\ UNCHANGED <<store, calls>>

NextPages == CreateBeforePaging \/ FirstPage \/ NextPage

\* the caller goes on calling while it holds a cursor: WF_vars(NextPage), in
\* which ENABLED <<NextPage>>_vars is written as the guard of NextPage (a call
\* always counts one page more, so it always changes the state)
CallerGoesOn == []<>(~HoldsCursor) \/ []<><<NextPage>>_vars

SpecPages == InitPages /\ [][NextPages]_vars /\ CallerGoesOn

----------------------------------------------------------------------------
(* Goroutines sharing the store.  What a call does before its backend        *)
(* request (its options, its expression, its request) is local to it; the    *)
(* request is one atomic step of the service; the return of the call with    *)
(* what the response holds is a later step of the goroutine, and the steps   *)
(* of other goroutines come between the two.                                 *)

\* the record the goroutines call the store on, and the prefix they list by
SharedKey == << << "p" >>, << "a", "/", "1" >> >>
SharedPrefix == << "a" >>

\* the payload a goroutine writes: one that no other goroutine writes
PayloadOf(g) == g

RECURSIVE Written(_)
\* the table after n successful writes of the record: a Create, then Updates
Written(n) ==
    LET now == CHOOSE t \in Times : TRUE
    IN  IF n = 0 THEN [k \in {} |-> EmptyItem]
        ELSE IF n = 1
        THEN Create(Written(0), now, SharedKey[1], SharedKey[2], "data", << >>, FALSE).table
        ELSE Update(Written(n - 1), now, SharedKey[1], SharedKey[2], "data", << >>, FALSE).table

\* the calls a goroutine may make: the method and its options
SharedCalls ==
    { [op |-> "Update", options |-> o] :
          o \in { << >> } \cup { << writeWithVersion(e) >> : e \in 1 .. MaxVersion } }
        \cup { [op |-> op, options |-> << >>] :
                   op \in { "Create", "Get", "Delete", "ListBySortKeyPrefix" } }

\* the method a call runs, from its backend request on
method(tbl, now, g, call) ==
    CASE call.op = "Create" ->
             Create(tbl, now, SharedKey[1], SharedKey[2], PayloadOf(g), call.options, FALSE)
      [] call.op = "Update" ->
             Update(tbl, now, SharedKey[1], SharedKey[2], PayloadOf(g), call.options, FALSE)
      [] call.op = "Get" ->
             Get(tbl, SharedKey[1], SharedKey[2], call.options, FALSE)
      [] call.op = "Delete" ->
             Delete(tbl, SharedKey[1], SharedKey[2], call.options, FALSE)
      [] call.op = "ListBySortKeyPrefix" ->
             ListBySortKeyPrefix(tbl, SharedKey[1], SharedPrefix, call.options, FALSE)

\* the history of the shared record as the backend has served it: whether it
\* existed when the goroutines started and with what version, the number of
\* Create and Update requests served without error since it last came into
\* existence, and the version in the response to the latest of them
Started(n) ==
    [ op |-> "", existed |-> (n > 0), started |-> n, writes |-> n, responded |-> n ]

\* the history after the backend has served the request of a call
Recorded(history, op, out) ==
    CASE op \in { "Create", "Update" } /\ out.err = NoErr ->
             [history EXCEPT !.writes = @ + 1, !.responded = out.res.Version]
      [] op = "Delete" /\ out.err = NoErr ->
             [history EXCEPT !.writes = 0, !.responded = 0]
      [] OTHER -> history

InitShared ==
    /\ \E n \in 0 .. MaxVersion :
           /\ table = Written(n)
           /\ last = Started(n)
    /\ store = New
    /\ calls = NoCalls

\* a goroutine enters a method and builds the options of the call
Begin(g) ==
    /\ calls[g].stage = "idle"
    /\ \E call \in SharedCalls :
           LET own == ownOptions(store, call.op, call.options)
           IN  /\ store' = own.store
               /\ calls' = [calls EXCEPT ![g] =
                                [NoCall EXCEPT !.stage = "built", !.op = call.op,
                                               !.options = call.options,
                                               !.defaultOpts = own.defaultOpts]]
    /\ UNCHANGED <<table, last>>

\* the backend serves the request of the call: the table changes, and the
\* response is on its way to the goroutine, which has not got it yet
Serve(g) ==
    /\ calls[g].stage = "built"
    /\ \E now \in Times :
           LET out == method(table, now, g, calls[g])
           IN  /\ table' = out.table
               /\ calls' = [calls EXCEPT ![g].stage = "served", ![g].err = out.err,
                                         ![g].res = out.res, ![g].val = out.val]
               /\ last' = Recorded(last, calls[g].op, out)
    /\ UNCHANGED store

\* the call returns to its goroutine what the response holds; the requests
\* of other goroutines may have been served, and their calls may have
\* returned, since the request of this one was served
Return(g) ==
    /\ calls[g].stage = "served"
    /\ calls' = [calls EXCEPT ![g].stage = "done"]
    /\ UNCHANGED <<table, last, store>>

NextShared == \E g \in Callers : Begin(g) \/ Serve(g) \/ Return(g)

SpecShared == InitShared /\ [][NextShared]_vars

----------------------------------------------------------------------------
(* The option sets on their own: a list of options of one kind is applied    *)
(* to the defaults of that kind                                              *)

\* the longest option list applied
MaxOptions == 3

ReadOptions ==
    { readWithConsistentRead(b) : b \in BOOLEAN }
        \cup { readWithLimit(n) : n \in Limits }
        \cup { readWithLastEvaluatedKey(c) : c \in { << >>, << "a" >> } }

DeleteOptions == { deleteWithCheck(b) : b \in BOOLEAN }

\* the options of a kind, and the defaults they are applied to
OptionsOf(kind) ==
    CASE kind = "write" -> WriteOptions
      [] kind = "read" -> ReadOptions
      [] kind = "delete" -> DeleteOptions

DefaultsOf(kind) ==
    CASE kind = "write" -> defaultWriteOptions
      [] kind = "read" -> defaultReadOptions
      [] kind = "delete" -> defaultDeleteOptions

InitOptions ==
    /\ table = [k \in {} |-> EmptyItem]
    /\ \E kind \in { "write", "read", "delete" }, n \in 0 .. MaxOptions :
           \E options \in [1 .. n -> OptionsOf(kind)] :
               last = [ op |-> "", kind |-> kind, options |-> options,
                        defaultOpts |-> DefaultsOf(kind) ]
    /\ store = New
    /\ calls = NoCalls

CallApplyWriteOptions ==
    /\ last.op = "" /\ last.kind = "write"
    /\ last' = [last EXCEPT !.op = "applyWriteOptions",
                            !.defaultOpts = applyWriteOptions(last.defaultOpts, last.options)]
    /\ UNCHANGED <<table, store, calls>>

CallApplyReadOptions ==
    /\ last.op = "" /\ last.kind = "read"
    /\ last' = [last EXCEPT !.op = "applyReadOptions",
                            !.defaultOpts = applyReadOptions(last.defaultOpts, last.options)]
    /\ UNCHANGED <<table, store, calls>>

CallApplyDeleteOptions ==
    /\ last.op = "" /\ last.kind = "delete"
    /\ last' = [last EXCEPT !.op = "applyDeleteOptions",
                            !.defaultOpts = applyDeleteOptions(last.defaultOpts, last.options)]
    /\ UNCHANGED <<table, store, calls>>

NextOptions == CallApplyWriteOptions \/ CallApplyReadOptions \/ CallApplyDeleteOptions

SpecOptions == InitOptions /\ [][NextOptions]_vars

----------------------------------------------------------------------------
(* Properties                                                              *)

\* the key of the most recent call
LastKey == << last.partitionKey, last.sortKey >>

\* the option struct a write is made with
WriteOpts(options) == applyWriteOptions(defaultWriteOptions, options)

\* the write option lists that pass the reserved-field check
PlainWriteOptionLists ==
    { options \in WriteOptionLists :
        \A k \in DOMAIN WriteOpts(options).extraFields : ~isReservedField(k) }

\* C1: a successful Create on a key at which no record existed returns
\* version 1 and leaves a record with stored version 1 at that key, whatever
\* value and write options it was called with.
C1_CreateStartsAtVersionOne ==
    (last.op = "Create" /\ last.err = NoErr /\ ~last.existed)
        => /\ ~last.res.nil
           /\ last.res.Version = 1
           /\ LastKey \in DOMAIN table
           /\ StoredVersion(table[LastKey]) = 1

\* a first Create has succeeded with version 1, and the record it left has an
\* expiry, so it was made with a write option
C1_Witness ==
    /\ last.op = "Create" /\ last.err = NoErr /\ ~last.existed
    /\ last.res.Version = 1
    /\ LastKey \in DOMAIN table
    /\ DefaultExpiresAttribute \in DOMAIN table[LastKey]

\* C2: a successful Update returns the version stored at the key immediately
\* before it plus 1, and that is the version stored afterwards.
C2_UpdateIncrementsVersion ==
    (last.op = "Update" /\ last.err = NoErr)
        => /\ ~last.res.nil
           /\ last.res.Version = last.versionBefore + 1
           /\ LastKey \in DOMAIN table
           /\ StoredVersion(table[LastKey]) = last.res.Version

\* an Update of a record with version 1 has succeeded
C2_Witness ==
    /\ last.op = "Update" /\ last.err = NoErr
    /\ last.existed /\ last.versionBefore = 1
    /\ last.res.Version = 2

\* C3: on an existing record with stored version v, an Update with an expected
\* version e > 0 succeeds exactly when e = v; with any other positive e it
\* fails with the backend's conditional-check error and the table is as before.
C3_UpdateWithVersion ==
    \A key \in DOMAIN table, value \in Values, now \in Times, options \in PlainWriteOptionLists :
        LET e == WriteOpts(options).version
            v == StoredVersion(table[key])
            out == Update(table, now, key[1], key[2], value, options, FALSE)
        IN  e > 0 =>
              /\ (out.err = NoErr) <=> (e = v)
              /\ e # v => /\ Is(out.err, ConditionalCheckFailedException)
                          /\ out.res.nil
                          /\ out.table = table

\* an Update of an existing record has failed its condition: its expected
\* version was not the stored one
C3_Witness ==
    /\ last.op = "Update" /\ last.existed
    /\ Is(last.err, ConditionalCheckFailedException)
    /\ LastKey \in DOMAIN table
    /\ StoredVersion(table[LastKey]) = last.versionBefore

\* C4: a Create that does not disable the create constraint (the default), on a
\* key at which a record exists, returns an error and a nil result, and the
\* table is as before.
C4_CreateOnExistingFails ==
    \A key \in DOMAIN table, value \in Values, now \in Times, options \in WriteOptionLists :
        LET out == Create(table, now, key[1], key[2], value, options, FALSE)
        IN  ~WriteOpts(options).createConstraintDisabled =>
              /\ out.err # NoErr
              /\ out.res.nil
              /\ out.table = table

\* a Create on an existing key has failed its condition and returned nil
C4_Witness ==
    /\ last.op = "Create" /\ last.existed
    /\ Is(last.err, ConditionalCheckFailedException)
    /\ last.res.nil
    /\ LastKey \in DOMAIN table

\* C5: a Create with the create constraint disabled, on a key at which a record
\* with version v exists, succeeds, overwrites the payload and returns v + 1.
C5_CreateConstraintDisabled ==
    \A key \in DOMAIN table, value \in Values, now \in Times :
        LET v == StoredVersion(table[key])
            out == Create(table, now, key[1], key[2], value,
                          << writeWithCreateConstraintDisabled(TRUE) >>, FALSE)
        IN  /\ out.err = NoErr
            /\ ~out.res.nil
            /\ out.res.Version = v + 1
            /\ out.table[key][DefaultPayloadAttribute] = MarshalValue(value)

\* C6: a Delete with the existence check enabled (the default), on a key at
\* which no record exists, returns exactly ErrDeleteFailedKeyNotExists and the
\* table is as before.
C6_DeleteMissingFails ==
    \A key \in Keys \ DOMAIN table, options \in { << >>, << deleteWithCheck(TRUE) >> } :
        LET out == Delete(table, key[1], key[2], options, FALSE)
        IN  /\ out.err = NewError(ErrDeleteFailedKeyNotExists)
            /\ out.table = table

\* a Delete on a key with no record has returned ErrDeleteFailedKeyNotExists
C6_Witness ==
    /\ last.op = "Delete" /\ ~last.existed
    /\ last.err = NewError(ErrDeleteFailedKeyNotExists)
    /\ LastKey \notin DOMAIN table

\* C7: a Delete with DeleteWithCheck(false) returns no error on every key: with
\* no record at the key the table is as before, with a record it is removed,
\* and a second such Delete returns no error either.
C7_DeleteWithoutCheck ==
    \A key \in Keys :
        LET out == Delete(table, key[1], key[2], << deleteWithCheck(FALSE) >>, FALSE)
            again == Delete(out.table, key[1], key[2], << deleteWithCheck(FALSE) >>, FALSE)
        IN  /\ out.err = NoErr
            /\ out.table = RemoveItem(table, key)
            /\ again.err = NoErr
            /\ again.table = out.table

\* C8: after a successful Delete of an existing record there is no record at
\* the key: a default Delete that follows fails with
\* ErrDeleteFailedKeyNotExists, and a Create that follows succeeds with
\* version 1.
C8_DeleteRemovesRecord ==
    (last.op = "Delete" /\ last.err = NoErr /\ last.existed)
        => /\ LastKey \notin DOMAIN table
           /\ Delete(table, LastKey[1], LastKey[2], << >>, FALSE).err
                  = NewError(ErrDeleteFailedKeyNotExists)
           /\ \A value \in Values, now \in Times, options \in PlainWriteOptionLists :
                  LET out == Create(table, now, LastKey[1], LastKey[2], value, options, FALSE)
                  IN  /\ out.err = NoErr
                      /\ out.res.Version = 1
                      /\ StoredVersion(out.table[LastKey]) = 1

\* a record that had reached version 2 has been deleted
C8_Witness ==
    /\ last.op = "Delete" /\ last.err = NoErr
    /\ last.existed /\ last.versionBefore = 2
    /\ LastKey \notin DOMAIN table

\* the extra fields that name the reserved attribute r: alone, and beside a
\* name that is not reserved
FieldsNaming(r) == { r :> "abc123", ("created" :> "20250101") @@ (r :> "abc123") }

\* C9: for each of the five reserved attribute names, a Create or an Update
\* whose extra fields contain the name returns an error matching
\* ErrReservedField and a nil result, with no hook invoked and no backend
\* request made, so the table is as before; other names among the extra fields
\* change nothing of this.
C9_ReservedFieldRejected ==
    \A key \in Keys, value \in Values, now \in Times, r \in ReservedNames :
        \A f \in FieldsNaming(r) :
            LET options == << writeWithExtraFields(f) >>
                created == Create(table, now, key[1], key[2], value, options, FALSE)
                updated == Update(table, now, key[1], key[2], value, options, FALSE)
            IN  /\ Is(created.err, ErrReservedField) /\ Is(updated.err, ErrReservedField)
                /\ created.res.nil /\ updated.res.nil
                /\ created.events = << >> /\ updated.events = << >>
                /\ created.table = table /\ updated.table = table

\* an Update of an existing record has been rejected for a reserved field
\* name before any hook or backend request
C9_Witness ==
    /\ last.op = "Update" /\ last.existed
    /\ Is(last.err, ErrReservedField)
    /\ last.events = << >>
    /\ last.res.nil

\* C10: a Get on a key at which no record exists returns no error, the zero
\* value of the value type and a result with version 0.
C10_GetMissingReturnsZero ==
    \A key \in Keys \ DOMAIN table, options \in ReadOptionLists :
        LET out == Get(table, key[1], key[2], options, FALSE)
        IN  /\ out.err = NoErr
            /\ out.val = ZeroValue
            /\ ~out.res.nil
            /\ out.res.Version = 0
            /\ out.table = table

\* a Get on a key with no record has returned the zero value and version 0,
\* after the backend was asked
C10_Witness ==
    /\ last.op = "Get" /\ ~last.existed
    /\ last.err = NoErr
    /\ last.val = ZeroValue
    /\ ~last.res.nil /\ last.res.Version = 0
    /\ Len(last.events) = 3

\* C11: a Get on a key at which no record exists returns an error, a nil
\* result and a nil value.
C11_GetMissingReturnsError ==
    \A key \in Keys \ DOMAIN table, options \in ReadOptionLists :
        LET out == Get(table, key[1], key[2], options, FALSE)
        IN  /\ out.err # NoErr
            /\ out.res.nil
            /\ out.val = ZeroValue

\* C12: a Get that follows a successful Create or Update, with no write to the
\* key in between, returns no error, the value that write was given and the
\* version that write returned; and every successful Get of an existing record
\* returns the payload and the version stored at its key.
C12_GetReturnsWhatWasWritten ==
    /\ \A key \in Keys, value \in Values, now \in Times, options \in PlainWriteOptionLists :
           LET created == Create(table, now, key[1], key[2], value, options, FALSE)
               updated == Update(table, now, key[1], key[2], value, options, FALSE)
           IN  \A written \in { created, updated } :
                   written.err = NoErr =>
                       \A readOptions \in ReadOptionLists :
                           LET got == Get(written.table, key[1], key[2], readOptions, FALSE)
                           IN  /\ got.err = NoErr
                               /\ got.val = value
                               /\ ~got.res.nil
                               /\ got.res.Version = written.res.Version
                               /\ key \in DOMAIN table \/ got.res.Version = 1
    /\ (last.op = "Get" /\ last.err = NoErr /\ last.existed)
           => /\ last.val = table[LastKey][DefaultPayloadAttribute].v
              /\ last.res.Version = StoredVersion(table[LastKey])

\* a Get of a record that was created and then updated has returned a payload
\* and version 2
C12_Witness ==
    /\ last.op = "Get" /\ last.err = NoErr /\ last.existed
    /\ last.val \in Values
    /\ last.res.Version = 2
    /\ last.val = table[LastKey][DefaultPayloadAttribute].v

\* C13: an Update on a key at which no record exists fails with the backend's
\* conditional-check error and a nil result, with or without an expected
\* version, and the table is as before: no record is created.
C13_UpdateMissingFails ==
    \A key \in Keys \ DOMAIN table, value \in Values, now \in Times,
       options \in PlainWriteOptionLists :
        LET out == Update(table, now, key[1], key[2], value, options, FALSE)
        IN  /\ Is(out.err, ConditionalCheckFailedException)
            /\ out.res.nil
            /\ out.table = table
            /\ key \notin DOMAIN out.table

\* an Update on a key with no record has failed its condition, and there is
\* still no record at the key
C13_Witness ==
    /\ last.op = "Update" /\ ~last.existed
    /\ Is(last.err, ConditionalCheckFailedException)
    /\ last.res.nil
    /\ LastKey \notin DOMAIN table

\* the keys of the records a listing is to return
Matching(tbl, pk, prefix) == { k \in DOMAIN tbl : k[1] = pk /\ HasPrefix(k[2], prefix) }

\* the payloads of these records, in ascending order of sort key
PayloadsOf(tbl, pk, keys) ==
    LET sks == SortStrings({ k[2] : k \in keys })
    IN  [i \in 1 .. Len(sks) |-> tbl[<< pk, sks[i] >>][DefaultPayloadAttribute].v]

\* C16: a listing with a limit n >= 1 smaller than the number of matching
\* records returns exactly n values and a cursor that is not empty; the
\* listing that follows with that cursor and no limit returns exactly the
\* values of the remaining matching records and an empty cursor.
C16_LimitThenResume ==
    \A pk \in ListPKeys, prefix \in Prefixes, n \in Limits \ {0} :
        LET matching == Matching(table, pk, prefix)
            first == ListBySortKeyPrefix(table, pk, prefix, << readWithLimit(n) >>, FALSE)
            rest == ListBySortKeyPrefix(first.table, pk, prefix,
                        << readWithLastEvaluatedKey(first.res.LastEvaluatedKey) >>, FALSE)
        IN  n < Cardinality(matching) =>
              /\ first.err = NoErr /\ ~first.res.nil
              /\ Len(first.val) = n
              /\ first.res.LastEvaluatedKey # << >>
              /\ rest.err = NoErr /\ ~rest.res.nil
              /\ Len(rest.val) = Cardinality(matching) - n
              /\ rest.res.LastEvaluatedKey = << >>
              /\ first.val \o rest.val = PayloadsOf(table, pk, matching)

\* a listing given a cursor and no limit has returned the two values that a
\* listing limited to one value had left, and an empty cursor
C16_Witness ==
    /\ last.op = "ListBySortKeyPrefix" /\ last.err = NoErr
    /\ last.cursor # << >> /\ last.limit = 0
    /\ Cardinality(Matching(table, last.partitionKey, last.sortKey)) = 3
    /\ Len(last.val) = 2
    /\ last.res.LastEvaluatedKey = << >>

\* C17: a listing with no limit and no cursor returns exactly the values of the
\* records of the given partition whose sort key begins with the prefix (in
\* ascending order of sort key) and an empty cursor; the records of other
\* partitions and those with other sort keys are not among them.
C17_ListReturnsMatching ==
    \A pk \in ListPKeys, prefix \in Prefixes :
        LET out == ListBySortKeyPrefix(table, pk, prefix, << >>, FALSE)
        IN  /\ out.err = NoErr /\ ~out.res.nil
            /\ out.res.LastEvaluatedKey = << >>
            /\ out.val = PayloadsOf(table, pk, Matching(table, pk, prefix))
            /\ out.table = table

\* a listing with no limit and no cursor has returned two values from a table
\* that also holds a record of the partition with another sort key and a
\* record of another partition
C17_Witness ==
    /\ last.op = "ListBySortKeyPrefix" /\ last.err = NoErr
    /\ last.cursor = << >> /\ last.limit = 0
    /\ Len(last.val) = 2
    /\ last.res.LastEvaluatedKey = << >>
    /\ \E k \in DOMAIN table : k[1] = last.partitionKey /\ ~HasPrefix(k[2], last.sortKey)
    /\ \E k \in DOMAIN table : k[1] # last.partitionKey

\* C18: for every last evaluated key that is not empty and whose attributes
\* are all strings, encodeLastEvaluatedKey returns a cursor that is not empty,
\* and parseLastEvaluatedKey of that cursor sets an exclusive start key equal
\* to the last evaluated key.
C18_CursorRoundTrip ==
    (DOMAIN last.key # {} /\ \A a \in DOMAIN last.key : last.key[a].t = "S")
        => /\ last.op = "encodeLastEvaluatedKey" => last.err = NoErr /\ last.cursor # << >>
           /\ last.op = "parseLastEvaluatedKey" =>
                  last.err = NoErr /\ last.start = << last.key >>

\* a key of two string attributes, one of them with a quote in it, has come
\* back from its cursor
C18_Witness ==
    /\ last.op = "parseLastEvaluatedKey" /\ last.err = NoErr
    /\ DOMAIN last.key = { "id", "name" }
    /\ last.key["name"] = MarshalString(<< "\"", "<" >>)
    /\ last.start = << last.key >>

\* the keys of the records whose attribute hash is the string pk and whose
\* attribute range is a string that begins with the prefix
MatchingBy(tbl, hash, range, pk, prefix) ==
    { k \in DOMAIN tbl :
        /\ hash \in DOMAIN tbl[k] /\ tbl[k][hash] = MarshalString(pk)
        /\ range \in DOMAIN tbl[k] /\ tbl[k][range].t = "S"
        /\ HasPrefix(tbl[k][range].v, prefix) }

\* the values of a sequence are the payloads of the records at the keys, each
\* as often as it is stored
ArePayloadsOf(vals, tbl, keys) ==
    /\ Len(vals) = Cardinality(keys)
    /\ \A v \in Values :
           Cardinality({ i \in 1 .. Len(vals) : vals[i] = v })
               = Cardinality({ k \in keys : tbl[k][DefaultPayloadAttribute].v = v })

\* C19: a listing given a secondary index with its partition and sort attribute
\* names returns the values of exactly the records whose index partition
\* attribute equals the given key and whose index sort attribute begins with
\* the prefix, whatever their primary key attributes are.
C19_ListByIndex ==
    \A pk \in ListPKeys, prefix \in IndexPrefixes, index \in Indexes :
        LET out == ListBySortKeyPrefixIndex(table, pk, prefix, << index >>, FALSE)
        IN  /\ out.err = NoErr /\ ~out.res.nil
            /\ ArePayloadsOf(out.val, table,
                   MatchingBy(table, index.indexPartitionKeyName, index.indexSortKeyName,
                              pk, prefix))

\* a listing by the global index has returned the value of a record whose
\* primary partition key is not the key given and whose primary sort key does
\* not begin with the prefix
C19_Witness ==
    /\ last.op = "ListBySortKeyPrefix" /\ last.err = NoErr
    /\ last.index = "idx_global_1"
    /\ Len(last.val) = 1
    /\ \A k \in DOMAIN table :
           "pk1" \in DOMAIN table[k] =>
               k[1] # last.partitionKey /\ ~HasPrefix(k[2], last.sortKey)

\* the store-defined error kinds
StoreErrors == { ErrReservedField, ErrDeleteFailedKeyNotExists }

\* C20: a Create or an Update whose condition does not hold (Create on an
\* existing key; Update on a missing key or with a positive expected version
\* that is not the stored one) returns an error in whose chain the backend's
\* conditional-check failure is found, and no store-defined error.
C20_ConditionFailurePassedThrough ==
    \A key \in Keys, value \in Values, now \in Times, options \in PlainWriteOptionLists :
        LET created == Create(table, now, key[1], key[2], value, options, FALSE)
            updated == Update(table, now, key[1], key[2], value, options, FALSE)
            e == WriteOpts(options).version
            createFails == key \in DOMAIN table
            updateFails == \/ key \notin DOMAIN table
                           \/ e > 0 /\ e # StoredVersion(table[key])
        IN  /\ createFails =>
                /\ Is(created.err, ConditionalCheckFailedException)
                /\ \A kind \in StoreErrors : ~Is(created.err, kind)
            /\ updateFails =>
                /\ Is(updated.err, ConditionalCheckFailedException)
                /\ \A kind \in StoreErrors : ~Is(updated.err, kind)

\* a Create on an existing key has returned the wrapped conditional-check
\* failure of the backend
C20_Witness ==
    /\ last.op = "Create" /\ last.existed
    /\ last.err = << "dynastorev2: failed to update item", ConditionalCheckFailedException >>
    /\ \A kind \in StoreErrors : ~Is(last.err, kind)

\* the expected version of an Update call (0: none)
ExpectedVersionOf(g) ==
    IF calls[g].op = "Update" THEN calls[g].defaultOpts.version ELSE 0

\* the payload stored at the shared key (the zero value when there is none)
StoredPayload ==
    LET item == ItemAt(table, SharedKey)
    IN  IF fields.payloadName \in DOMAIN item THEN item[fields.payloadName].v ELSE ZeroValue

\* the request of the call of a goroutine has been served: the call holds
\* its response, and has returned or is about to
Answered(g) == calls[g].stage \in { "served", "done" }

\* no Delete has removed the record since the goroutines started: the record
\* the calls are about is one record
RecordKept ==
    \A g \in Callers :
        ~(calls[g].op = "Delete" /\ Answered(g) /\ calls[g].err = NoErr)

\* C14: of the Update calls of different goroutines on one record that carry
\* the same positive expected version, at most one is answered without error
\* and so at most one returns without error, whatever the order of the
\* backend requests and of the returns (the calls of other methods among
\* them, as long as none deletes the record); each one that fails does so
\* with the conditional-check error of the backend, and its payload is not
\* the one stored.
C14_OneUpdateWins ==
    /\ \A g \in Callers, h \in Callers :
           (/\ RecordKept
            /\ g # h
            /\ Answered(g) /\ Answered(h)
            /\ ExpectedVersionOf(g) > 0
            /\ ExpectedVersionOf(g) = ExpectedVersionOf(h))
               => ~(calls[g].err = NoErr /\ calls[h].err = NoErr)
    /\ \A g \in Callers :
           (Answered(g) /\ ExpectedVersionOf(g) > 0 /\ calls[g].err # NoErr)
               => /\ Is(calls[g].err, ConditionalCheckFailedException)
                  /\ StoredPayload # PayloadOf(g)

\* three Updates with one expected version have been served: the one served
\* first won and has not returned yet, the others have returned their
\* failures before it
C14_Witness ==
    \E g \in Callers :
        /\ calls[g].stage = "served" /\ ExpectedVersionOf(g) > 0 /\ calls[g].err = NoErr
        /\ StoredPayload = PayloadOf(g)
        /\ \A h \in Callers \ {g} :
               /\ calls[h].stage = "done"
               /\ ExpectedVersionOf(h) = ExpectedVersionOf(g)
               /\ Is(calls[h].err, ConditionalCheckFailedException)

\* C15: whatever calls are in flight or have returned, the store is as New
\* left it (client, table name, field names, store options and hooks), and
\* the option struct of every call is the defaults with the options of that
\* call alone.
C15_StoreNotModified ==
    /\ store = New
    /\ \A g \in Callers :
           calls[g].stage # "idle"
               => calls[g].defaultOpts =
                      applyOptions(
                          CASE calls[g].op \in { "Create", "Update" } -> defaultWriteOptions
                            [] calls[g].op \in { "Get", "ListBySortKeyPrefix" } -> defaultReadOptions
                            [] calls[g].op = "Delete" -> defaultDeleteOptions,
                          calls[g].options)

\* two Updates with different expected versions are in flight while a call of
\* another method has returned
C15_Witness ==
    \E g \in Callers, h \in Callers, k \in Callers :
        /\ calls[g].stage = "built" /\ calls[h].stage = "built"
        /\ ExpectedVersionOf(g) > 0 /\ ExpectedVersionOf(h) > ExpectedVersionOf(g)
        /\ calls[k].stage = "done" /\ calls[k].op \in { "Create", "Delete" }
        /\ calls[k].err = NoErr

\* the backend requests of the store
BackendCalls == { "UpdateItem", "GetItem", "DeleteItem", "Query" }

\* C21: in every call, of any of the five methods, the RequestBuilt hook is
\* invoked before the backend request is sent, and the ResponseReceived hook
\* after it when the call went on to return without error (the response was
\* received).
C21_HooksAroundBackendCall ==
    \A i \in 1 .. Len(last.events) :
        last.events[i].kind \in BackendCalls =>
            /\ \E j \in 1 .. (i - 1) : last.events[j].kind = "RequestBuilt"
            /\ last.err = NoErr =>
                   \E j \in (i + 1) .. Len(last.events) :
                       last.events[j].kind = "ResponseReceived"

\* every hook invocation and backend request of a trace was given a context
\* from which these operation details are read
SawDetails(events, name, pk, sk) ==
    \A i \in 1 .. Len(events) :
        OperationDetailsFromContext(events[i].ctx)
            = [Name |-> name, PartitionKey |-> pk, SortKey |-> sk]

\* C22: in a call of any of the five methods, served or failed by the
\* backend, every hook invocation and every backend request is given a
\* context that carries the name of the method and the partition key and sort
\* key of the call as strings (the prefix, for a listing).
C22_OperationDetailsSeen ==
    \A key \in ListKeys, fault \in BOOLEAN :
        /\ \A value \in Values, now \in Times :
               /\ SawDetails(Create(table, now, key[1], key[2], value, << >>, fault).events,
                             "Create", key[1], key[2])
               /\ SawDetails(Update(table, now, key[1], key[2], value, << >>, fault).events,
                             "Update", key[1], key[2])
        /\ SawDetails(Get(table, key[1], key[2], << >>, fault).events,
                      "Get", key[1], key[2])
        /\ SawDetails(Delete(table, key[1], key[2], << >>, fault).events,
                      "Delete", key[1], key[2])
        /\ \A prefix \in Prefixes :
               SawDetails(ListBySortKeyPrefix(table, key[1], prefix, << >>, fault).events,
                          "ListBySortKeyPrefix", key[1], prefix)

\* a listing has sent its query with the details of the call in the context,
\* and a Get of a record of the table invokes both hooks with them
C22_Witness ==
    /\ last.op = "ListBySortKeyPrefix" /\ Len(last.events) = 1
    /\ OperationDetailsFromContext(last.events[1].ctx)
           = [ Name |-> "ListBySortKeyPrefix", PartitionKey |-> last.partitionKey,
               SortKey |-> last.sortKey ]
    /\ \E key \in DOMAIN table :
           LET events == Get(table, key[1], key[2], << >>, FALSE).events
           IN  /\ Len(events) = 3
               /\ OperationDetailsFromContext(events[3].ctx).SortKey = key[2]

\* C23: after a successful Create or Update whose TTL option is not greater
\* than 0 (the default among them), the record stored at the key has no
\* expiry attribute, whatever the writes before it stored.
C23_NoExpiryWithoutTTL ==
    \A key \in Keys, value \in Values, now \in Times, options \in PlainWriteOptionLists :
        LET created == Create(table, now, key[1], key[2], value, options, FALSE)
            updated == Update(table, now, key[1], key[2], value, options, FALSE)
        IN  WriteOpts(options).ttl <= 0 =>
                /\ created.err = NoErr =>
                       fields.expiresName \notin DOMAIN created.table[key]
                /\ updated.err = NoErr =>
                       fields.expiresName \notin DOMAIN updated.table[key]

\* the options of a list that target a field, by their places in the list
Targeting(options, f) == { i \in 1 .. Len(options) : f \in DOMAIN options[i] }

\* a list with the options at places i and i + 1 in each other's place
Swapped(options, i) ==
    [j \in 1 .. Len(options) |->
        IF j = i THEN options[i + 1] ELSE IF j = i + 1 THEN options[i] ELSE options[j]]

\* C24: after a list of options of one kind is applied to the defaults, each
\* field holds the value of the last option of the list that targets it, or
\* its default when none does; and the list with two neighbours that target
\* different fields in each other's place gives the same option struct.
C24_OptionsLeftToRight ==
    last.op # "" =>
        /\ \A f \in DOMAIN DefaultsOf(last.kind) :
               LET at == Targeting(last.options, f)
                   latest == CHOOSE i \in at : \A j \in at : j <= i
               IN  last.defaultOpts[f] =
                       IF at = {} THEN DefaultsOf(last.kind)[f] ELSE last.options[latest][f]
        /\ \A i \in 1 .. (Len(last.options) - 1) :
               DOMAIN last.options[i] \cap DOMAIN last.options[i + 1] = {}
                   => applyOptions(DefaultsOf(last.kind), Swapped(last.options, i))
                          = last.defaultOpts

\* three write options have been applied, the first and the last to one
\* field with different values, the one between to another field
C24_Witness ==
    /\ last.op = "applyWriteOptions" /\ Len(last.options) = 3
    /\ "version" \in DOMAIN last.options[1] /\ "version" \in DOMAIN last.options[3]
    /\ last.options[1].version # last.options[3].version
    /\ "ttl" \in DOMAIN last.options[2]
    /\ last.defaultOpts.version = last.options[3].version
    /\ last.defaultOpts.ttl = last.options[2].ttl

\* the calls of a method whose request has been served, those of them that
\* have returned, and those of each without error
Served(op) == { g \in Callers : calls[g].op = op /\ Answered(g) }
Returned(op) == { g \in Callers : calls[g].op = op /\ calls[g].stage = "done" }
Won(op) == { g \in Served(op) : calls[g].err = NoErr }
Succeeded(op) == { g \in Returned(op) : calls[g].err = NoErr }

\* C25: when no record was at the key as the goroutines started and none has
\* been deleted since, of the Create calls whose requests have been served
\* exactly one succeeds, with version 1, and every other fails the condition
\* of the request, whatever the order of the backend requests and of the
\* returns: at most one has returned without error at any time, and exactly
\* one once all of them have returned.
C25_OneCreateWins ==
    (~last.existed /\ RecordKept /\ Served("Create") # {}) =>
        /\ Cardinality(Won("Create")) = 1
        /\ \A g \in Won("Create") : calls[g].res.Version = 1
        /\ \A g \in Served("Create") \ Won("Create") :
               Is(calls[g].err, ConditionalCheckFailedException)
        /\ Cardinality(Succeeded("Create")) <= 1
        /\ Returned("Create") = Served("Create") => Cardinality(Succeeded("Create")) = 1

\* three Creates on the missing record have returned, one of them with
\* version 1
C25_Witness ==
    /\ ~last.existed
    /\ Returned("Create") = Callers
    /\ \E g \in Callers : calls[g].err = NoErr /\ calls[g].res.Version = 1

\* C26: whatever Create, Update and Delete requests have been served in
\* whatever order, and whatever calls have returned, the version stored in
\* the record, when there is one, is the number of Create and Update calls
\* that have succeeded since the record last came into existence, and so is
\* the version in the response to the latest of them; hence the successful
\* writes of a record that was not deleted in between hold versions that
\* differ from one another and follow one another from the version the
\* record started with (from 1 for a record that did not exist), and those
\* of them that have returned are among these, in whatever order they return.
C26_VersionCountsWrites ==
    /\ SharedKey \in DOMAIN table =>
           /\ StoredVersion(ItemAt(table, SharedKey)) = last.writes
           /\ last.responded = last.writes
    /\ SharedKey \notin DOMAIN table => last.writes = 0
    /\ RecordKept =>
           /\ { calls[g].res.Version : g \in Won("Create") \cup Won("Update") }
                  = (last.started + 1) .. last.writes
           /\ Cardinality(Won("Create") \cup Won("Update")) = last.writes - last.started
           /\ \A g \in Succeeded("Create") \cup Succeeded("Update") :
                  \A h \in (Succeeded("Create") \cup Succeeded("Update")) \ {g} :
                      calls[g].res.Version # calls[h].res.Version

\* a record has been deleted, created again and updated: its version is 2,
\* the Update, which was answered 2, has not returned yet, and the Create and
\* the Delete have
C26_Witness ==
    /\ last.existed /\ last.writes = 2 /\ last.responded = 2
    /\ StoredVersion(ItemAt(table, SharedKey)) = 2
    /\ Succeeded("Delete") # {} /\ Succeeded("Create") # {}
    /\ Won("Update") # {} /\ Succeeded("Update") = {}

\* C27: an Update whose expected version is not greater than 0 (no
\* WriteWithVersion, 0, or a negative value) compares no version: on every
\* existing record, whatever its stored version, it succeeds and returns that
\* version plus 1.
C27_UpdateWithoutExpectedVersion ==
    \A key \in DOMAIN table, value \in Values, now \in Times, options \in PlainWriteOptionLists :
        LET out == Update(table, now, key[1], key[2], value, options, FALSE)
        IN  WriteOpts(options).version <= 0 =>
                /\ out.err = NoErr
                /\ out.res.Version = StoredVersion(table[key]) + 1

\* a record with a stored version above 1 on which an Update with a
\* negative expected version succeeds, while one that expects version 1 fails
C27_Witness ==
    \E key \in DOMAIN table, value \in Values, now \in Times :
        /\ StoredVersion(table[key]) > 1
        /\ Update(table, now, key[1], key[2], value, << writeWithVersion(-1) >>, FALSE).err = NoErr
        /\ Update(table, now, key[1], key[2], value, << writeWithVersion(1) >>, FALSE).err # NoErr

\* the option lists with the expected-version options taken out
WithoutVersion(options) == SelectSeq(options, LAMBDA o : "version" \notin DOMAIN o)

\* C28: Create does not look at the expected version: whatever value
\* WriteWithVersion is given, the call returns the same result and error,
\* leaves the same table and sends the same request as the call without the
\* option.
C28_CreateIgnoresVersion ==
    \A key \in Keys, value \in Values, now \in Times, options \in WriteOptionLists,
       fault \in BOOLEAN :
        Create(table, now, key[1], key[2], value, options, fault)
            = Create(table, now, key[1], key[2], value, WithoutVersion(options), fault)

\* a Create with an expected version that no record has succeeds on a
\* missing key while a record is in the table; on that record it fails like
\* the Create without the option
C28_Witness ==
    \E key \in Keys, other \in DOMAIN table, value \in Values, now \in Times :
        /\ key \notin DOMAIN table
        /\ Create(table, now, key[1], key[2], value,
                  << writeWithVersion(MaxVersion + 1) >>, FALSE).res.Version = 1
        /\ Create(table, now, other[1], other[2], value,
                  << writeWithVersion(StoredVersion(table[other])) >>, FALSE).err # NoErr

\* the backend request of a method
BackendCallOf(op) ==
    CASE op \in { "Create", "Update" } -> "UpdateItem"
      [] op = "Get" -> "GetItem"
      [] op = "Delete" -> "DeleteItem"

\* the error of the call is one the backend request returned
BackendReturnedError(err) ==
    \/ Is(err, BackendFailure)
    \/ Is(err, ConditionalCheckFailedException)
    \/ Is(err, ErrDeleteFailedKeyNotExists)

\* C29: in a Create, Get, Update or Delete call the events are, in this
\* order, the RequestBuilt hook, the backend request and the ResponseReceived
\* hook, each at most once and none without the one before; the backend
\* request carries the context RequestBuilt returned for the context it was
\* given, and ResponseReceived is invoked only when the backend request
\* returned no error.
C29_HookOrder ==
    last.op \in { "Create", "Get", "Update", "Delete" } =>
        LET kinds == [i \in 1 .. Len(last.events) |-> last.events[i].kind]
        IN  /\ kinds \in { << >>,
                           << "RequestBuilt", BackendCallOf(last.op) >>,
                           << "RequestBuilt", BackendCallOf(last.op), "ResponseReceived" >> }
            /\ Len(kinds) >= 2 =>
                   last.events[2].ctx
                       = RequestBuilt(last.events[1].ctx, last.partitionKey, last.sortKey)
            /\ Len(kinds) = 3 => ~BackendReturnedError(last.err)
            /\ BackendReturnedError(last.err) => Len(kinds) = 2

\* an Update has failed in the backend after RequestBuilt changed the
\* context: the request carried the changed context and no ResponseReceived
\* followed
C29_Witness ==
    /\ last.op = "Update" /\ Is(last.err, BackendFailure)
    /\ Len(last.events) = 2
    /\ last.events[1].kind = "RequestBuilt" /\ last.events[2].kind = "UpdateItem"
    /\ last.events[2].ctx # last.events[1].ctx

\* Get and ListBySortKeyPrefix, with every input of the model, leave a table
\* as it is
ReadsKeep(tbl) ==
    /\ \A key \in ListKeys, options \in ReadOptionLists, fault \in BOOLEAN :
           Get(tbl, key[1], key[2], options, fault).table = tbl
    /\ \A pk \in ListPKeys, prefix \in Prefixes, limit \in Limits, fault \in BOOLEAN,
          cursor \in { << >>, last.res.LastEvaluatedKey } :
           ListBySortKeyPrefix(tbl, pk, prefix, ListOptions(limit, cursor), fault).table = tbl

\* a table with a record that has an expiry and an extra field
WithRichRecord(tbl, key) ==
    Create([k \in DOMAIN tbl \ {key} |-> tbl[k]], CHOOSE t \in Times : TRUE, key[1], key[2],
           "data", << writeWithTTL(2), writeWithExtraFields(("created" :> "20250101")) >>,
           FALSE).table

\* C30: Get and ListBySortKeyPrefix do not change the table: after the call,
\* whether it returned an error or not, the table holds the same records with
\* the same payload, version, extra fields and expiry as before.
C30_ReadsLeaveTable ==
    /\ ReadsKeep(table)
    /\ \A key \in ListKeys :
           LET tbl == WithRichRecord(table, key)
           IN  /\ Get(tbl, key[1], key[2], << >>, FALSE).table = tbl
               /\ ListBySortKeyPrefix(tbl, key[1], << "a" >>, << >>, FALSE).table = tbl

\* a listing has returned two records and a cursor, and a Get of a record of
\* the table returns its payload: the table still holds both
C30_Witness ==
    /\ last.op = "ListBySortKeyPrefix" /\ last.err = NoErr
    /\ Len(last.val) = 2 /\ last.res.LastEvaluatedKey # << >>
    /\ Cardinality(DOMAIN table) >= 3
    /\ \E key \in DOMAIN table :
           LET out == Get(table, key[1], key[2], << >>, FALSE)
           IN  out.err = NoErr /\ out.val # ZeroValue /\ out.table = table

\* C31: a Create, Update or Delete call that returns an error which the store
\* detected itself or which the backend reported as a failed condition leaves
\* the table as it was: no record is created, changed or removed, and no
\* version is incremented.
C31_ErrorLeavesTable ==
    \A key \in Keys :
        /\ \A value \in Values, now \in Times, options \in WriteOptionLists :
               LET created == Create(table, now, key[1], key[2], value, options, FALSE)
                   updated == Update(table, now, key[1], key[2], value, options, FALSE)
               IN  /\ created.err # NoErr => created.table = table /\ created.res.nil
                   /\ updated.err # NoErr => updated.table = table /\ updated.res.nil
        /\ \A options \in DeleteOptionLists :
               LET deleted == Delete(table, key[1], key[2], options, FALSE)
               IN  deleted.err # NoErr => deleted.table = table

\* on one table a Create fails its condition on an existing record, an Update
\* fails its version check on it, an Update with a reserved extra field is
\* refused by the store, and a Delete fails on a missing record: the table is
\* as before each time
C31_Witness ==
    \E key \in DOMAIN table, missing \in Keys \ DOMAIN table, value \in Values, now \in Times :
        LET created == Create(table, now, key[1], key[2], value, << >>, FALSE)
            updated == Update(table, now, key[1], key[2], value,
                              << writeWithVersion(StoredVersion(table[key]) + 1) >>, FALSE)
            deleted == Delete(table, missing[1], missing[2], << >>, FALSE)
        IN  /\ Is(created.err, ConditionalCheckFailedException) /\ created.table = table
            /\ Is(updated.err, ConditionalCheckFailedException) /\ updated.table = table
            /\ Is(deleted.err, ErrDeleteFailedKeyNotExists) /\ deleted.table = table
            /\ \E f \in ReservedFields :
                   LET refused == Update(table, now, key[1], key[2], value,
                                         << writeWithExtraFields(f) >>, FALSE)
                   IN  refused.err # NoErr /\ refused.events = << >> /\ refused.table = table

\* the listing has come to its end: an empty cursor, and the pages together
\* are the payloads of the matching records, each once, in ascending order of
\* sort key
PagingComplete ==
    /\ last.op = "ListBySortKeyPrefix" /\ last.err = NoErr
    /\ last.res.LastEvaluatedKey = << >>
    /\ last.listed = PayloadsOf(table, last.partitionKey,
                                Matching(table, last.partitionKey, last.sortKey))

\* C32: with no writes in between, a caller that lists with a limit n >= 1
\* and no cursor and then goes on with the same limit and the cursor of the
\* result before comes to a result with an empty cursor, and the pages put
\* together hold the payload of every matching record exactly once, in
\* ascending order of sort key.
C32_PagingEnds == (last.op = "ListBySortKeyPrefix") ~> PagingComplete

\* three records were listed one by one: the fourth page brought the empty
\* cursor
C32_Witness ==
    /\ PagingComplete
    /\ last.limit = 1 /\ Len(last.listed) = 3 /\ last.pages = 4
    /\ Len(last.val) = 0

\* the response of the backend to the query a listing sends
QueryOf(tbl, pk, prefix, limit, cursor) ==
    LET input == [ KeyConditionExpression |->
                       Build(WithKeyCondition(NewBuilder,
                           listKeyCondition(fields.partitionKeyName, MarshalString(pk),
                                            fields.sortKeyName, prefix))).expr.keyCondition,
                   IndexName |-> "", ExclusiveStartKey |-> << >>, Limit |-> limit ]
    IN  Query(tbl,
              IF cursor # << >> THEN parseLastEvaluatedKey(cursor, input).queryInput ELSE input,
              FALSE)

\* C33: the cursor of a successful listing is empty exactly when the backend
\* returned no last evaluated key; and a last evaluated key that is present,
\* whatever its attributes (none at all among them), is never encoded as the
\* empty cursor, so an empty cursor means that no page is left.
C33_EmptyCursorMeansEnd ==
    /\ \A pk \in ListPKeys, prefix \in Prefixes, limit \in Limits,
          cursor \in { << >>, last.res.LastEvaluatedKey } :
           LET out == ListBySortKeyPrefix(table, pk, prefix, ListOptions(limit, cursor), FALSE)
               res == QueryOf(table, pk, prefix, limit, cursor)
           IN  out.err = NoErr =>
                   /\ res.err = NoErr
                   /\ (out.res.LastEvaluatedKey = << >>) <=> (res.LastEvaluatedKey = << >>)
    /\ \A key \in { EmptyItem } \cup { [a \in PositionAttributes("") |-> table[k][a]] :
                                          k \in DOMAIN table } :
           LET encoded == encodeLastEvaluatedKey([LastEvaluatedKey |-> << key >>])
           IN  encoded.err = NoErr /\ encoded.key # << >>

\* a listing limited to one record has returned a cursor, and the listing
\* of the same records without a limit returns none
C33_Witness ==
    /\ last.op = "ListBySortKeyPrefix" /\ last.err = NoErr
    /\ last.limit = 1 /\ last.res.LastEvaluatedKey # << >>
    /\ QueryOf(table, last.partitionKey, last.sortKey, 1, last.cursor).LastEvaluatedKey # << >>
    /\ ListBySortKeyPrefix(table, last.partitionKey, last.sortKey, << >>, FALSE)
           .res.LastEvaluatedKey = << >>

\* the bytes of the JSON texts null and [], and of the text x
Null == << 110, 117, 108, 108 >>
EmptyArray == << 91, 93 >>
NoJSON == << 120 >>

\* cursors that the encoder never returns: text outside the base64 alphabet,
\* base64 followed by a line feed, base64 of text that is no JSON, and base64
\* of JSON that is not an object of strings
ForeignCursors ==
    { << "!" >>, << "a" >>,
      << "e", "3", "0", "\n" >>,
      EncodeToString(NoJSON),
      EncodeToString(Null),
      EncodeToString(EmptyArray),
      EncodeToString(Bytes(<< "{", "\"", "a", "\"", ":", "1", "}" >>)) }

\* C34: a listing given a cursor that is not empty and that the encoder
\* cannot have returned (not unpadded URL-safe base64, or not the JSON of an
\* object of strings) returns an error and a nil result, and sends no query
\* to the backend.
C34_ForeignCursorRejected ==
    \A pk \in ListPKeys, prefix \in Prefixes, cursor \in ForeignCursors :
        LET out == ListBySortKeyPrefix(table, pk, prefix,
                                       << readWithLastEvaluatedKey(cursor) >>, FALSE)
        IN  /\ out.err # NoErr
            /\ out.res.nil
            /\ out.events = << >>

\* C35: a record whose expiry has passed and that the backend has not
\* removed yet is returned by a listing like any other record: the listing
\* of its partition by a prefix of its sort key returns the payloads of all
\* matching records, the expired one among them.
C35_ExpiredStillListed ==
    \A key \in ListKeys, prefix \in Prefixes :
        LET tbl == WithRichRecord(table, key)
            out == ListBySortKeyPrefix(tbl, key[1], prefix, << >>, FALSE)
        IN  (Expired(tbl[key]) /\ HasPrefix(key[2], prefix)) =>
                /\ out.err = NoErr
                /\ out.val = PayloadsOf(tbl, key[1], Matching(tbl, key[1], prefix))
                /\ Len(out.val) = Cardinality(Matching(tbl, key[1], prefix))

\* a table with two records that match a prefix: written again with a TTL,
\* the first of them has expired by the time of the listing, and the listing
\* returns both
C35_Witness ==
    \E key \in DOMAIN table, other \in DOMAIN table, prefix \in Prefixes :
        LET tbl == WithRichRecord(table, key)
        IN  /\ key # other /\ key[1] = other[1]
            /\ HasPrefix(key[2], prefix) /\ HasPrefix(other[2], prefix)
            /\ Expired(tbl[key]) /\ ~Expired(tbl[other])
            /\ Len(ListBySortKeyPrefix(tbl, key[1], prefix, << >>, FALSE).val) >= 2

\* the times of a call and the positive TTLs the expiry is checked for: on
\* and between whole seconds
Moments == Times \cup { t - 1 : t \in Times }
PositiveTTLs == 1 .. (2 * TicksPerSecond)

\* C36: after a successful Create or Update with a TTL t > 0 the expires
\* attribute of the record is the time of the call plus t in whole seconds
\* since the epoch: the second in which that instant lies.
C36_ExpiryIsNowPlusTTL ==
    \A key \in Keys, value \in Values, now \in Moments, ttl \in PositiveTTLs :
        LET created == Create(table, now, key[1], key[2], value, << writeWithTTL(ttl) >>, FALSE)
            updated == Update(table, now, key[1], key[2], value, << writeWithTTL(ttl) >>, FALSE)
            InSecond(item) ==
                /\ fields.expiresName \in DOMAIN item
                /\ item[fields.expiresName].t = "N"
                /\ item[fields.expiresName].v * TicksPerSecond <= now + ttl
                /\ now + ttl < (item[fields.expiresName].v + 1) * TicksPerSecond
        IN  /\ created.err = NoErr => InSecond(created.table[key])
            /\ updated.err = NoErr => InSecond(updated.table[key])

\* an Update with a TTL has left a record whose expiry is the whole second
\* of the time of the call plus the TTL, and a TTL of a second and a half
\* from a time between seconds would give the second after
C36_Witness ==
    /\ last.op = "Update" /\ last.err = NoErr
    /\ LastKey \in DOMAIN table
    /\ fields.expiresName \in DOMAIN table[LastKey]
    /\ \E now \in Times, ttl \in TTLs :
           /\ ttl > 0
           /\ table[LastKey][fields.expiresName].v * TicksPerSecond <= now + ttl
           /\ now + ttl < (table[LastKey][fields.expiresName].v + 1) * TicksPerSecond
           /\ Update(table, now, LastKey[1], LastKey[2], "data", << writeWithTTL(ttl + 1) >>, FALSE)
                  .table[LastKey][fields.expiresName].v
                  = table[LastKey][fields.expiresName].v + 1

\* an extra field that no record of the model has been written with
NoteField == "note" :> "n1"

\* the option lists of an Update the frame is checked for: those of the
\* model that pass the reserved-field check, and one that names another
\* extra field
FrameOptionLists == PlainWriteOptionLists \cup { << writeWithExtraFields(NoteField) >> }

\* the attributes an Update with these options may assign
Assigned(options) ==
    { fields.versionName, fields.payloadName }
        \cup DOMAIN WriteOpts(options).extraFields
        \cup (IF WriteOpts(options).ttl > 0 THEN { fields.expiresName } ELSE {})

\* C37: a successful Update changes the version, the payload, the extra
\* fields it names and, with a positive TTL, the expiry, and nothing else:
\* every other attribute of the record, the extra fields of earlier writes
\* among them, is there with its value as before, no other attribute is
\* added, and every other record is as before.
C37_UpdateFrame ==
    \A key \in DOMAIN table, value \in Values, now \in Times, options \in FrameOptionLists :
        LET out == Update(table, now, key[1], key[2], value, options, FALSE)
        IN  out.err = NoErr =>
                /\ DOMAIN out.table = DOMAIN table
                /\ \A k \in DOMAIN table \ {key} : out.table[k] = table[k]
                /\ DOMAIN out.table[key] = DOMAIN table[key] \cup Assigned(options)
                /\ \A a \in DOMAIN table[key] \ Assigned(options) :
                       out.table[key][a] = table[key][a]

\* a record written with an extra field and an expiry: an Update that names
\* another extra field succeeds, adds it, and leaves the first and the expiry
\* as they were
C37_Witness ==
    \E key \in DOMAIN table, value \in Values, now \in Times :
        LET out == Update(table, now, key[1], key[2], value,
                          << writeWithExtraFields(NoteField) >>, FALSE)
        IN  /\ "created" \in DOMAIN table[key]
            /\ fields.expiresName \in DOMAIN table[key]
            /\ out.err = NoErr
            /\ out.table[key]["note"] = MarshalString("n1")
            /\ out.table[key]["created"] = table[key]["created"]
            /\ out.table[key][fields.expiresName] = table[key][fields.expiresName]
            /\ StoredVersion(out.table[key]) = StoredVersion(table[key]) + 1

\* no ResponseReceived hook was invoked in the call
NoResponseReceived ==
    \A i \in 1 .. Len(last.events) : last.events[i].kind # "ResponseReceived"

\* C38: Delete returns ErrDeleteFailedKeyNotExists only when the backend
\* refused the request because its condition failed (no record was at the
\* key); when the request fails in the backend in another way, Delete
\* returns that failure wrapped, which does not match
\* ErrDeleteFailedKeyNotExists; and in neither case is the ResponseReceived
\* hook invoked.
C38_DeleteErrors ==
    last.op = "Delete" =>
        /\ Is(last.err, ErrDeleteFailedKeyNotExists) =>
               /\ ~last.existed
               /\ ~Is(last.err, BackendFailure)
               /\ Len(last.events) = 2 /\ last.events[2].kind = "DeleteItem"
        /\ Is(last.err, BackendFailure) =>
               /\ last.err = Wrap(NewError(BackendFailure), "dynastorev2: failed to delete record")
               /\ last.err # NewError(BackendFailure)
               /\ ~Is(last.err, ErrDeleteFailedKeyNotExists)
               /\ Len(last.events) = 2 /\ last.events[2].kind = "DeleteItem"
        /\ last.err # NoErr => NoResponseReceived /\ (LastKey \in DOMAIN table <=> last.existed)

\* the delete request of a record that exists has failed in the backend:
\* the error is the wrapped failure and the record is still there
C38_Witness ==
    /\ last.op = "Delete" /\ last.existed
    /\ Is(last.err, BackendFailure)
    /\ ~Is(last.err, ErrDeleteFailedKeyNotExists)
    /\ Len(last.events) = 2
    /\ LastKey \in DOMAIN table

============================================================================
